---- MODULE Spec2Model ----
(***************************************************************************)
(* BigList (advanced_collections/_src/big_list.py): a list kept as         *)
(* segments, one pickled file per segment, with an LRU cache of loaded     *)
(* segments, a lazily built Fenwick tree over the segment lengths and a    *)
(* balancing step run after each local mutation.                           *)
(*                                                                         *)
(* An object state is a record s; every method is an operator from the     *)
(* state before the call to the state after it.  s.err is "ok" or the name *)
(* of the exception that ended the call: the statements executed before   *)
(* the raise keep their effect, the ones after it are skipped.             *)
(* Python lists are sequences; a Python index i reads element i + 1.       *)
(*                                                                         *)
(* BigDict (advanced_collections/_src/big_dict.py) is modelled the same    *)
(* way further down, and BigList.aextend as a coroutine whose frame is     *)
(* suspended at its awaits.                                                *)
(***************************************************************************)
EXTENDS Integers, Sequences, FiniteSets, TLC

VARIABLES
    _cache,       \* OrderedDict filename -> segment, oldest access first
    _fenwick,     \* None or the Fenwick list
    _filenames,   \* the file name of each segment
    _len,         \* the total length len() reports
    _lens,        \* the recorded length of each segment
    _path_count,
    _path_index,
    _paths,       \* the sorted roots
    disk,         \* the files under the roots
    result,       \* outcome of the last call: err, value returned, call made
    hw,           \* largest size the cache had during the last call
    steps,        \* number of calls made so far
    given,        \* what the calls gave: per file name the content of its segment,
                  \* or per key of a mapping its value
    obj           \* the BigDict and its files, or the frame of a call of aextend

vars == <<_cache, _fenwick, _filenames, _len, _lens, _path_count, _path_index,
          _paths, disk, result, hw, steps, given, obj>>

\* No object of another class was constructed.
NoObject == [class |-> "none"]

\* The chunk size, scaled down from 8192 to a value with the same residues
\* (even, 2 modulo 3), so that 2*CHUNKSIZE + 1, 4*CHUNKSIZE + 1 and
\* 6*CHUNKSIZE + 1 divide into 2, 3 and 4 parts as they do in the source.
\* The source asserts CHUNKSIZE * 3 // 2 == CHUNKSIZE_EXTENDED.
CHUNKSIZE == 8
CHUNKSIZE_EXTENDED == (CHUNKSIZE * 3) \div 2
\* _free_cache evicts when the cache holds this many segments.
CACHESIZE == 4
\* First probe width of the search in _fenwick_index.
FENWICK_PROBE == 2048

OK == "ok"
None == [present |-> FALSE, f |-> <<>>]
Some(f) == [present |-> TRUE, f |-> f]

Min(a, b) == IF a < b THEN a ELSE b
Max(a, b) == IF a > b THEN a ELSE b

(***************************************************************************)
(* Python list primitives.                                                 *)
(***************************************************************************)
\* range(n)[i]: the index i names, or -1 when it raises IndexError.
RangeIndex(n, i) ==
    IF 0 <= i /\ i < n THEN i
    ELSE IF i < 0 /\ i + n >= 0 THEN i + n
    ELSE -1

\* A slice bound normalised as list slicing does.
Bound(n, i) == IF i < 0 THEN Max(i + n, 0) ELSE Min(i, n)

\* seq[a:b]
Slice(seq, a, b) == SubSeq(seq, Bound(Len(seq), a) + 1, Bound(Len(seq), b))
\* seq[a:]
SliceFrom(seq, a) == SubSeq(seq, Bound(Len(seq), a) + 1, Len(seq))
\* del seq[a:b]
DelSlice(seq, a, b) ==
    LET lo == Bound(Len(seq), a)
        hi == Bound(Len(seq), b)
    IN  IF lo < hi THEN SubSeq(seq, 1, lo) \o SubSeq(seq, hi + 1, Len(seq))
        ELSE seq
\* seq.insert(i, v)
ListInsert(seq, i, v) ==
    LET k == Bound(Len(seq), i)
    IN  SubSeq(seq, 1, k) \o <<v>> \o SubSeq(seq, k + 1, Len(seq))
\* seq.pop(i) for a valid index i >= 0: the list left
ListRemove(seq, i) == SubSeq(seq, 1, i) \o SubSeq(seq, i + 2, Len(seq))

RECURSIVE Reverse(_)
Reverse(seq) ==
    IF seq = <<>> THEN <<>> ELSE Reverse(Tail(seq)) \o <<Head(seq)>>

RECURSIVE Sum(_)
Sum(seq) == IF seq = <<>> THEN 0 ELSE Head(seq) + Sum(Tail(seq))

\* i & -i for i > 0
RECURSIVE LowBit(_)
LowBit(i) == IF i % 2 = 1 THEN 1 ELSE 2 * LowBit(i \div 2)

\* n.bit_length() for n >= 0
RECURSIVE BitLength(_)
BitLength(n) == IF n = 0 THEN 0 ELSE 1 + BitLength(n \div 2)

(***************************************************************************)
(* Exceptions.                                                             *)
(***************************************************************************)
Raise(s, e) == [s EXCEPT !.err = e]
\* Run F on s unless an exception is already propagating.
Then(s, F(_)) == IF s.err = OK THEN F(s) ELSE s
\* A local name v for a value, as an assignment to a local variable gives.
Let(v, F(_)) == F(v)

(***************************************************************************)
(* Files.                                                                  *)
(***************************************************************************)
\* open(path, "wb") + pickle.dump
Write(files, fn, seg) ==
    [f \in DOMAIN files \cup {fn} |-> IF f = fn THEN seg ELSE files[f]]
\* Path.unlink
Unlink(files, fn) == [f \in DOMAIN files \ {fn} |-> files[f]]

(***************************************************************************)
(* The segment cache.                                                      *)
(***************************************************************************)
InCache(s, fn) == \E k \in 1..Len(s.cache) : s.cache[k].fn = fn
CachePos(s, fn) == CHOOSE k \in 1..Len(s.cache) : s.cache[k].fn = fn
\* the list object the cache holds for fn
Chunk(s, fn) == s.cache[CachePos(s, fn)].seg
CacheRemove(s, fn) ==
    IF InCache(s, fn)
    THEN [s EXCEPT !.cache = ListRemove(s.cache, CachePos(s, fn) - 1)]
    ELSE s
\* self._cache[fn] = seg
CachePut(s, fn, seg) ==
    LET c == IF InCache(s, fn)
             THEN [s.cache EXCEPT ![CachePos(s, fn)].seg = seg]
             ELSE Append(s.cache, [fn |-> fn, seg |-> seg])
    IN  [s EXCEPT !.cache = c, !.hw = Max(s.hw, Len(c))]
\* An in-place change of the list object obtained for fn: it shows in the
\* cache while the cache still holds that object and is lost otherwise.
Mutate(s, fn, seg) ==
    IF InCache(s, fn) THEN [s EXCEPT !.cache[CachePos(s, fn)].seg = seg] ELSE s

_commit_chunk(s, filename, segment) ==
    [s EXCEPT !.seg = Write(s.seg, filename, segment)]

\* _free_cache dropping the oldest segment without writing it
_free_cache_dropping(s) ==
    IF Len(s.cache) = CACHESIZE THEN [s EXCEPT !.cache = Tail(s.cache)] ELSE s

_free_cache(s) ==
    IF Len(s.cache) = CACHESIZE
    THEN _commit_chunk([s EXCEPT !.cache = Tail(s.cache)],
                       s.cache[1].fn, s.cache[1].seg)
    ELSE s

\* self._filenames[index]
HasFile(s, index) == RangeIndex(Len(s.filenames), index) >= 0
FileAt(s, index) == s.filenames[RangeIndex(Len(s.filenames), index) + 1]

\* _cache_chunk without move_to_end: a hit leaves the segment where it is
_cache_chunk_unmoved(s, index) ==
    IF ~HasFile(s, index) THEN Raise(s, "IndexError")
    ELSE IF InCache(s, FileAt(s, index)) THEN s
    ELSE Then(_free_cache(s), LAMBDA t :
             IF FileAt(s, index) \notin DOMAIN t.seg THEN Raise(t, "FileNotFoundError")
             ELSE CachePut(t, FileAt(s, index), t.seg[FileAt(s, index)]))

\* The state after self._cache_chunk(index); the list it returns is
\* Chunk(state, FileAt(s, index)).
_cache_chunk(s, index) ==
    IF ~HasFile(s, index) THEN Raise(s, "IndexError")
    ELSE LET filename == FileAt(s, index) IN
         IF InCache(s, filename)
         THEN [s EXCEPT !.cache = Append(ListRemove(s.cache, CachePos(s, filename) - 1),
                                         s.cache[CachePos(s, filename)])]
         ELSE Then(_free_cache(s), LAMBDA t :
                  IF filename \notin DOMAIN t.seg THEN Raise(t, "FileNotFoundError")
                  ELSE CachePut(t, filename, t.seg[filename]))

\* self._cache_chunk(index) followed by an in-place change F of the list
\* it returned.
Touch(s, index, F(_)) ==
    Then(_cache_chunk(s, index),
         LAMBDA t : Mutate(t, FileAt(s, index), F(Chunk(t, FileAt(s, index)))))

\* len(self._cache_chunk(index)) read in state s, after the access
ChunkLen(s, index) == Len(Chunk(s, FileAt(s, index)))

(***************************************************************************)
(* The Fenwick tree.                                                       *)
(***************************************************************************)
\* The tree list built from lens (the loop of _fenwick_index).
RECURSIVE FenwickBuild(_, _)
FenwickBuild(fenwick, i) ==
    IF i >= Len(fenwick) THEN fenwick
    ELSE LET j == i + LowBit(i) IN
         FenwickBuild(IF j < Len(fenwick)
                      THEN [fenwick EXCEPT ![j + 1] = fenwick[j + 1] + fenwick[i + 1]]
                      ELSE fenwick,
                      i + 1)

RECURSIVE FenwickWidth(_, _)
FenwickWidth(j, fenwick_len) ==
    IF j < fenwick_len THEN FenwickWidth(j * 2, fenwick_len) ELSE j

\* The descent of _fenwick_index: <<i, index>>.
RECURSIVE FenwickDescend(_, _, _, _)
FenwickDescend(fenwick, i, j, index) ==
    IF j <= 0 THEN <<i, index>>
    ELSE IF i + j < Len(fenwick) /\ fenwick[i + j + 1] <= index
         THEN FenwickDescend(fenwick, i + j, j \div 2, index - fenwick[i + j + 1])
         ELSE FenwickDescend(fenwick, i, j \div 2, index)

\* The tree _fenwick_index uses: the present one, or one built from lens.
FenwickOf(s) ==
    IF s.fenwick.present THEN s.fenwick.f
    ELSE FenwickBuild(<<0>> \o s.lens, 1)

\* The pair _fenwick_index(index) returns.
FenwickPair(s, index) ==
    LET fenwick == FenwickOf(s)
    IN  FenwickDescend(fenwick, 0, FenwickWidth(FENWICK_PROBE, Len(fenwick)), index)

\* The state after _fenwick_index(index): the tree is stored.
_fenwick_index(s, index) == [s EXCEPT !.fenwick = Some(FenwickOf(s))]

RECURSIVE FenwickAdd(_, _, _)
FenwickAdd(fenwick, index, value) ==
    IF index >= Len(fenwick) THEN fenwick
    ELSE FenwickAdd([fenwick EXCEPT ![index + 1] = fenwick[index + 1] + value],
                    IF LowBit(index) = index THEN index * 2 ELSE index + LowBit(index),
                    value)

_fenwick_update(s, index, value) ==
    IF value = 0 THEN s
    ELSE IF RangeIndex(Len(s.lens), index) < 0 THEN Raise(s, "IndexError")
    ELSE LET i == RangeIndex(Len(s.lens), index) + 1
             t == [s EXCEPT !.lens[i] = s.lens[i] + value]
         IN  IF s.fenwick.present
             THEN [t EXCEPT !.fenwick = Some(FenwickAdd(s.fenwick.f, i, value))]
             ELSE t

RECURSIVE FenwickFold(_, _, _)
FenwickFold(fenwick, i, j) ==
    IF j <= 1 THEN fenwick
    ELSE FenwickFold([fenwick EXCEPT ![i + 1] = fenwick[i + 1] + fenwick[i - (j \div 2) + 1]],
                     i, j \div 2)

\* _fenwick_append storing the new length without the sums it stands over.
_fenwick_append_unfolded(s, value) ==
    LET t == [s EXCEPT !.lens = Append(s.lens, value)] IN
    IF ~s.fenwick.present THEN t
    ELSE [t EXCEPT !.fenwick = Some(Append(s.fenwick.f, value))]

_fenwick_append(s, value) ==
    LET t == [s EXCEPT !.lens = Append(s.lens, value)] IN
    IF ~s.fenwick.present THEN t
    ELSE LET i == Len(s.fenwick.f) IN
         \* i & -i is 0 for an empty list
         [t EXCEPT !.fenwick =
             Some(FenwickFold(Append(s.fenwick.f, value), i,
                              IF i = 0 THEN 0 ELSE LowBit(i)))]

(***************************************************************************)
(* Segment files.                                                          *)
(***************************************************************************)
\* The path the next _get_filename returns.
NewFile(s) == <<s.paths[s.path_index + 1], s.counter[s.paths[s.path_index + 1]]>>

\* _get_filename that leaves the counter file as it read it
_get_filename_unwritten(s) ==
    LET path == s.paths[s.path_index + 1]
        uid == s.counter[path]
        count == s.path_count + 1
        switch == count * count > Len(s.filenames)
    IN  [s EXCEPT !.seg = Write(s.seg, <<path, uid>>, <<>>),
                  !.path_count = IF switch THEN 0 ELSE count,
                  !.path_index = IF switch THEN (s.path_index + 1) % Len(s.paths)
                                 ELSE s.path_index]

_get_filename(s) ==
    LET path == s.paths[s.path_index + 1]
        uid == s.counter[path]
        count == s.path_count + 1
        switch == count * count > Len(s.filenames)
    IN  [s EXCEPT !.counter[path] = uid + 1,
                  !.seg = Write(s.seg, <<path, uid>>, <<>>),
                  !.path_count = IF switch THEN 0 ELSE count,
                  !.path_index = IF switch THEN (s.path_index + 1) % Len(s.paths)
                                 ELSE s.path_index]

_del_chunk(s, index) ==
    IF RangeIndex(Len(s.filenames), index) < 0 THEN Raise(s, "IndexError")
    ELSE LET i == RangeIndex(Len(s.filenames), index)
             filename == s.filenames[i + 1]
         IN  Then([s EXCEPT !.filenames = ListRemove(s.filenames, i),
                            !.seg = IF filename \in DOMAIN s.seg
                                    THEN Unlink(s.seg, filename) ELSE s.seg,
                            !.err = IF filename \in DOMAIN s.seg
                                    THEN OK ELSE "FileNotFoundError"],
             LAMBDA t2 :
             Then(IF i >= Len(s.lens) THEN Raise(t2, "IndexError")
                  ELSE [t2 EXCEPT !.len = s.len - s.lens[i + 1],
                                  !.lens = ListRemove(s.lens, i)],
             LAMBDA t3 :
             Then(IF ~t3.fenwick.present \/ i < Len(t3.filenames)
                  THEN [t3 EXCEPT !.fenwick = None]
                  ELSE IF t3.fenwick.f = <<>> THEN Raise(t3, "IndexError")
                  ELSE [t3 EXCEPT !.fenwick =
                           Some(SubSeq(t3.fenwick.f, 1, Len(t3.fenwick.f) - 1))],
             LAMBDA u : CacheRemove(u, filename))))

\* The segment _pop_chunk(index) returns, read in the state before the call.
PoppedChunk(s, index) ==
    IF InCache(s, FileAt(s, index)) THEN Chunk(s, FileAt(s, index))
    ELSE s.seg[FileAt(s, index)]

_pop_chunk(s, index) ==
    IF ~HasFile(s, index) THEN Raise(s, "IndexError")
    ELSE LET filename == FileAt(s, index) IN
         IF InCache(s, filename) THEN _del_chunk(CacheRemove(s, filename), index)
         ELSE IF filename \notin DOMAIN s.seg THEN Raise(s, "FileNotFoundError")
         ELSE _del_chunk(s, index)

(***************************************************************************)
(* _balance                                                                *)
(***************************************************************************)
\* self._cache_chunk(index)[:] = seg
SetAll(s, index, seg) == Touch(s, index, LAMBDA c : seg)

\* self._fenwick_update(index, len(self._cache_chunk(index)) - self._lens[index])
SyncLen(s, index) ==
    Then(_cache_chunk(s, index), LAMBDA t :
        IF RangeIndex(Len(t.lens), index) < 0 THEN Raise(t, "IndexError")
        ELSE _fenwick_update(t, index,
                 ChunkLen(t, index) - t.lens[RangeIndex(Len(t.lens), index) + 1]))

\* self._filenames.insert(index, self._get_filename())
InsertNewFile(s, index) ==
    [_get_filename(s) EXCEPT !.filenames = ListInsert(s.filenames, index, NewFile(s))]

\* One segment longer than 2 * CHUNKSIZE: split it in two.
_balance_single(s) ==
    Then(_cache_chunk(s, 0), LAMBDA t :
    Let(Chunk(t, FileAt(t, 0)), LAMBDA chunk :
    Then(CachePut(InsertNewFile(t, Len(t.filenames)), NewFile(t),
                  SliceFrom(chunk, Len(chunk) \div 2)),
    LAMBDA t2 :
    Then(_cache_chunk([Mutate(t2, FileAt(t, 0), Slice(chunk, 0, Len(chunk) \div 2))
                          EXCEPT !.fenwick = None, !.lens[1] = Len(chunk) \div 2],
                      -1),
    LAMBDA u : [u EXCEPT !.lens = Append(u.lens, ChunkLen(u, -1))]))))

\* Segments a (receiving) and b (popped) at a boundary are merged into a.
BoundaryMerge(s, a, b) ==
    Let(s.lens[RangeIndex(Len(s.lens), b) + 1], LAMBDA lb :
    Then(_fenwick_update([s EXCEPT !.len = s.len + lb], a, lb), LAMBDA s2 :
    Then(_cache_chunk(s2, a), LAMBDA t :
    Then(_pop_chunk(t, b), LAMBDA u :
    Mutate(u, FileAt(t, a), Chunk(t, FileAt(t, a)) \o PoppedChunk(t, b))))))

\* chunk = [*self._cache_chunk(a), *self._cache_chunk(b)]: the state after
\* the two accesses, and the list built, read in that state (both lists are
\* cached in it: an access evicts the oldest entry only).
Pair2State(s, a, b) == Then(_cache_chunk(s, a), LAMBDA t : _cache_chunk(t, b))
Pair2Chunk(t, a, b) == Chunk(t, FileAt(t, a)) \o Chunk(t, FileAt(t, b))

\* The first two segments hold more than 4 * CHUNKSIZE: make them three.
_balance_first_split(s) ==
    Then(Pair2State(s, 0, 1), LAMBDA t :
    Let(Pair2Chunk(t, 0, 1), LAMBDA chunk :
        LET n == Len(chunk)
            rest == SliceFrom(chunk, (2 * n) \div 3)
        IN  Then(Then(Then(Then(Then(Then(
                SetAll(t, 0, Slice(chunk, 0, n \div 3)),
                LAMBDA u : SetAll(u, 1, Slice(chunk, n \div 3, (2 * n) \div 3))),
                LAMBDA u : _free_cache(InsertNewFile(u, 2))),
                LAMBDA u : CachePut(u, FileAt(u, 2), rest)),
                LAMBDA u : IF Len(u.lens) = 2 THEN _fenwick_append(u, Len(rest))
                           ELSE [u EXCEPT !.fenwick = None,
                                          !.lens = ListInsert(u.lens, 2, Len(rest))]),
                LAMBDA u : SyncLen(u, 0)),
                LAMBDA u : SyncLen(u, 1))))

\* The last two segments hold more than 4 * CHUNKSIZE: make them three.
_balance_last_split(s) ==
    Then(Pair2State(s, -2, -1), LAMBDA t :
    Let(Pair2Chunk(t, -2, -1), LAMBDA chunk :
        LET n == Len(chunk)
            rest == SliceFrom(chunk, (2 * n) \div 3)
        IN  Then(Then(Then(Then(Then(Then(
                SetAll(t, -2, Slice(chunk, 0, n \div 3)),
                LAMBDA u : SetAll(u, -1, Slice(chunk, n \div 3, (2 * n) \div 3))),
                LAMBDA u : _free_cache(InsertNewFile(u, Len(u.filenames)))),
                LAMBDA u : CachePut(u, FileAt(u, -1), rest)),
                LAMBDA u : SyncLen(u, -2)),
                LAMBDA u : SyncLen(u, -1)),
                LAMBDA u : _fenwick_append(u, Len(rest)))))

\* Move the tail of segment a (the longer, recorded diff apart) to the
\* front of segment b.
ShiftRight(s, a, b, diff) ==
    Then(_cache_chunk(s, a), LAMBDA t :
    Let(SliceFrom(Chunk(t, FileAt(t, a)), (-diff) \div 2), LAMBDA moved :
    Then(Touch(t, b, LAMBDA c : moved \o c), LAMBDA u :
    Touch(u, a, LAMBDA c : DelSlice(c, (-diff) \div 2, Len(c))))))

\* Move the head of segment b (the longer) to the end of segment a.
ShiftLeft(s, a, b, diff) ==
    Then(Pair2State(s, a, b), LAMBDA t :
    Touch(Mutate(t, FileAt(t, a),
                 Chunk(t, FileAt(t, a)) \o Slice(Chunk(t, FileAt(t, b)), 0, diff \div 2)),
          b, LAMBDA c : DelSlice(c, 0, diff \div 2)))

\* lens[a] and lens[b] are balanced already
BoundaryFine(la, sum) ==
    /\ CHUNKSIZE \div 2 < la /\ la < CHUNKSIZE * 2
    /\ CHUNKSIZE_EXTENDED < sum /\ sum < 3 * CHUNKSIZE

_balance_first(s) ==
    LET l0 == s.lens[1]
        l1 == s.lens[2]
    IN  IF l0 + l1 < CHUNKSIZE THEN BoundaryMerge(s, 0, 1)
        ELSE IF l0 + l1 > 4 * CHUNKSIZE THEN _balance_first_split(s)
        ELSE IF BoundaryFine(l0, l0 + l1) THEN s
        ELSE IF l0 > l1
             THEN Then(Then(ShiftRight(s, 0, 1, l0 - l1), LAMBDA t : SyncLen(t, 0)),
                       LAMBDA t : SyncLen(t, 1))
        ELSE IF l0 < l1
             THEN Then(Then(ShiftLeft(s, 0, 1, l1 - l0), LAMBDA t : SyncLen(t, 0)),
                       LAMBDA t : SyncLen(t, 1))
        ELSE s

_balance_last(s) ==
    LET l1 == s.lens[Len(s.lens)]
        l2 == s.lens[Len(s.lens) - 1]
    IN  IF l1 + l2 < CHUNKSIZE THEN BoundaryMerge(s, -2, -1)
        ELSE IF l1 + l2 > 4 * CHUNKSIZE THEN _balance_last_split(s)
        ELSE IF BoundaryFine(l1, l1 + l2) THEN s
        ELSE IF l1 < l2
             THEN Then(Then(ShiftRight(s, -2, -1, l2 - l1), LAMBDA t : SyncLen(t, -1)),
                       LAMBDA t : SyncLen(t, -2))
        ELSE IF l2 < l1
             THEN Then(Then(ShiftLeft(s, -2, -1, l1 - l2), LAMBDA t : SyncLen(t, -1)),
                       LAMBDA t : SyncLen(t, -2))
        ELSE s

\* The three segments around index hold less than CHUNKSIZE_EXTENDED:
\* make them two.
_balance_interior_merge(s, index) ==
    Then(Pair2State(s, index - 1, index), LAMBDA t :
    Let(Pair2Chunk(t, index - 1, index) \o PoppedChunk(t, index + 1), LAMBDA chunk :
        LET n == Len(chunk)
        IN  Then(Then(Then(Then(
                _pop_chunk(t, index + 1),
                LAMBDA u : SetAll(u, index - 1, Slice(chunk, 0, n \div 2))),
                LAMBDA u : SetAll(u, index, SliceFrom(chunk, n \div 2))),
                LAMBDA u : _fenwick_update(u, index, (n + 1) \div 2 - u.lens[index + 1])),
                LAMBDA u : IF index + 1 >= Len(u.lens) THEN Raise(u, "IndexError")
                           ELSE _fenwick_update(u, index + 1, n \div 2 - u.lens[index + 2]))))

\* chunk = [*self._cache_chunk(index - 1), *self._cache_chunk(index),
\*          *self._cache_chunk(index + 1)]: the state after the accesses, and
\* the list built, read in that state.
Tri3State(s, index) ==
    Then(Pair2State(s, index - 1, index), LAMBDA t : _cache_chunk(t, index + 1))
Tri3Chunk(t, index) ==
    Pair2Chunk(t, index - 1, index) \o Chunk(t, FileAt(t, index + 1))

\* The three segments around index hold more than 6 * CHUNKSIZE: make
\* them four.
_balance_interior_split(s, index) ==
    Then(Tri3State(s, index), LAMBDA t :
    Let(Tri3Chunk(t, index), LAMBDA chunk :
        LET n == Len(chunk)
            rest == SliceFrom(chunk, (3 * n) \div 4)
        IN  Then(Then(Then(Then(Then(Then(Then(
                SetAll(_free_cache(InsertNewFile(t, index + 2)),
                       index - 1, Slice(chunk, 0, n \div 4)),
                LAMBDA u : SetAll(u, index, Slice(chunk, n \div 4, n \div 2))),
                LAMBDA u : SetAll(u, index + 1, Slice(chunk, n \div 2, (3 * n) \div 4))),
                LAMBDA u : CachePut(u, FileAt(u, index + 2), rest)),
                LAMBDA u : IF index + 3 = Len(u.filenames) THEN _fenwick_append(u, Len(rest))
                           ELSE [u EXCEPT !.fenwick = None,
                                          !.lens = ListInsert(u.lens, index + 2, Len(rest))]),
                LAMBDA u : SyncLen(u, index - 1)),
                LAMBDA u : SyncLen(u, index)),
                LAMBDA u : SyncLen(u, index + 1))))

\* Spread the three segments around index evenly.
_balance_interior_thirds(s, index) ==
    Then(Tri3State(s, index), LAMBDA t :
    Let(Tri3Chunk(t, index), LAMBDA chunk :
        LET n == Len(chunk)
        IN  Then(Then(Then(Then(Then(
                SetAll(t, index - 1, Slice(chunk, 0, n \div 3)),
                LAMBDA u : SetAll(u, index, Slice(chunk, n \div 3, (2 * n) \div 3))),
                LAMBDA u : SetAll(u, index + 1, SliceFrom(chunk, (2 * n) \div 3))),
                LAMBDA u : SyncLen(u, index - 1)),
                LAMBDA u : SyncLen(u, index)),
                LAMBDA u : SyncLen(u, index + 1))))

InteriorFine(L) == CHUNKSIZE \div 2 < (2 * L) \div 3 /\ (2 * L) \div 3 < CHUNKSIZE

_balance_interior(s, index) ==
    LET a == s.lens[index]
        b == s.lens[index + 1]
        c == s.lens[index + 2]
    IN  IF a + b + c < CHUNKSIZE_EXTENDED THEN _balance_interior_merge(s, index)
        ELSE IF a + b + c > 6 * CHUNKSIZE THEN _balance_interior_split(s, index)
        ELSE IF ~(InteriorFine(a) /\ InteriorFine(b) /\ InteriorFine(c))
             THEN _balance_interior_thirds(s, index)
        ELSE s

\* _balance splitting a single segment one element too late.
_balance_late_split(s, index) ==
    IF Len(s.lens) = 0 THEN s
    ELSE IF Len(s.lens) = 1
         THEN IF s.lens[1] > 2 * CHUNKSIZE + 1 THEN _balance_single(s) ELSE s
    ELSE IF RangeIndex(Len(s.lens), index) < 0 THEN Raise(s, "IndexError")
    ELSE LET i == RangeIndex(Len(s.lens), index) IN
         IF i = 0 THEN _balance_first(s)
         ELSE IF i + 1 = Len(s.lens) THEN _balance_last(s)
         ELSE _balance_interior(s, i)

_balance(s, index) ==
    IF Len(s.lens) = 0 THEN s
    ELSE IF Len(s.lens) = 1
         THEN IF s.lens[1] > 2 * CHUNKSIZE THEN _balance_single(s) ELSE s
    ELSE IF RangeIndex(Len(s.lens), index) < 0 THEN Raise(s, "IndexError")
    ELSE LET i == RangeIndex(Len(s.lens), index) IN
         IF i = 0 THEN _balance_first(s)
         ELSE IF i + 1 = Len(s.lens) THEN _balance_last(s)
         ELSE _balance_interior(s, i)

(***************************************************************************)
(* Construction, commit, clear.                                            *)
(***************************************************************************)
\* sorted(paths)
RECURSIVE Sorted(_)
Sorted(S) ==
    IF S = {} THEN <<>>
    ELSE LET lo == CHOOSE x \in S : \A y \in S : x <= y
         IN  <<lo>> \o Sorted(S \ {lo})

\* ensure_file(path, default) on a family of files keyed by root
ensure_file(files, path, default) ==
    IF path \in DOMAIN files THEN files ELSE Write(files, path, default)

EmptyMeta == [filenames |-> <<>>, lens |-> <<>>, count |-> 0, index |-> 0]
EmptyDisk == [seg |-> <<>>, counter |-> <<>>, meta |-> <<>>, roots |-> <<>>]

\* The loop of __init__ without the comparison of the recorded roots.
RECURSIVE InitRoots_unchecked(_, _, _)
InitRoots_unchecked(d, paths, k) ==
    IF k = 0 THEN d
    ELSE InitRoots_unchecked([d EXCEPT !.roots = ensure_file(d.roots, paths[k], paths),
                                       !.counter = ensure_file(d.counter, paths[k], 0)],
                             paths, k - 1)

\* The loop of __init__ over reversed(paths), from position k down.
RECURSIVE InitRoots(_, _, _)
InitRoots(d, paths, k) ==
    IF k = 0 THEN d
    ELSE LET path == paths[k]
             roots == ensure_file(d.roots, path, paths)
         IN  IF roots[path] # paths
             THEN [d EXCEPT !.roots = roots, !.err = "ValueError"]
             ELSE InitRoots([d EXCEPT !.roots = roots,
                                      !.counter = ensure_file(d.counter, path, 0)],
                            paths, k - 1)

\* BigList(*roots) on the files d: the object, with the files as it
\* leaves them.
__init__(d, roots) ==
    LET paths == Sorted(roots)
        d1 == InitRoots([seg |-> d.seg, counter |-> d.counter, meta |-> d.meta,
                         roots |-> d.roots, err |-> OK],
                        paths, Len(paths))
        meta == ensure_file(d1.meta, paths[1], EmptyMeta)
    IN  IF d1.err # OK
        THEN [cache |-> <<>>, fenwick |-> None, filenames |-> <<>>, len |-> 0,
              lens |-> <<>>, path_count |-> 0, path_index |-> 0, paths |-> paths,
              seg |-> d1.seg, counter |-> d1.counter, meta |-> d1.meta,
              roots |-> d1.roots, err |-> d1.err, hw |-> 0]
        ELSE [cache |-> <<>>, fenwick |-> None,
              filenames |-> meta[paths[1]].filenames,
              len |-> Sum(meta[paths[1]].lens),
              lens |-> meta[paths[1]].lens,
              path_count |-> meta[paths[1]].count,
              path_index |-> meta[paths[1]].index,
              paths |-> paths,
              seg |-> d1.seg, counter |-> d1.counter, meta |-> meta,
              roots |-> d1.roots, err |-> OK, hw |-> 0]

RECURSIVE CommitCache(_, _)
CommitCache(s, k) ==
    IF k > Len(s.cache) THEN s
    ELSE CommitCache(_commit_chunk(s, s.cache[k].fn, s.cache[k].seg), k + 1)

commit(s) ==
    CommitCache([s EXCEPT !.meta = Write(s.meta, s.paths[1],
                                         [filenames |-> s.filenames, lens |-> s.lens,
                                          count |-> s.path_count, index |-> s.path_index])],
                1)

RECURSIVE UnlinkAll(_, _)
UnlinkAll(s, k) ==
    IF k > Len(s.filenames) THEN s
    ELSE IF s.filenames[k] \notin DOMAIN s.seg THEN Raise(s, "FileNotFoundError")
    ELSE UnlinkAll([s EXCEPT !.seg = Unlink(s.seg, s.filenames[k])], k + 1)

clear(s) ==
    Then(UnlinkAll(s, 1), LAMBDA t :
        [t EXCEPT !.counter = [r \in DOMAIN t.counter |->
                                  IF \E k \in 1..Len(t.paths) : t.paths[k] = r
                                  THEN 0 ELSE t.counter[r]],
                  !.meta = Write(t.meta, t.paths[1], EmptyMeta),
                  !.cache = <<>>, !.fenwick = None, !.filenames = <<>>,
                  !.len = 0, !.lens = <<>>, !.path_count = 0, !.path_index = 0])

(***************************************************************************)
(* append, insert, item access.                                            *)
(***************************************************************************)
\* The first statements of append and insert on a list with _len == 0.
FirstSegment(s, value) ==
    LET t == InsertNewFile([s EXCEPT !.fenwick = None], Len(s.filenames))
    IN  [CachePut(t, FileAt(t, -1), <<value>>) EXCEPT !.len = 1,
                                                      !.lens = Append(t.lens, 1)]

\* chunk-level edit of segment index, then _len += 1, the Fenwick update
\* and the balancing of that segment
InsertInto(s, index, j, value) ==
    LET t1 == Touch(s, index, LAMBDA c : ListInsert(c, j, value))
        t2 == Then(t1, LAMBDA u : _fenwick_update([u EXCEPT !.len = u.len + 1], index, 1))
    IN  Then(t2, LAMBDA u : _balance(u, index))

append(s, value) ==
    IF s.len = 0 THEN FirstSegment(s, value)
    ELSE LET t1 == Touch(s, -1, LAMBDA c : Append(c, value))
             t2 == Then(t1, LAMBDA u : _fenwick_update([u EXCEPT !.len = u.len + 1], -1, 1))
         IN  Then(t2, LAMBDA u : _balance(u, -1))

\* The part of insert after index is clamped.
InsertAt(s, index, value) ==
    IF s.lens = <<>> THEN Raise(s, "IndexError")
    ELSE LET first == index <= s.lens[1]
             last == index + s.lens[Len(s.lens)] >= s.len
             p == IF first THEN <<0, index>>
                  ELSE IF last THEN <<-1, index - s.len + s.lens[Len(s.lens)]>>
                  ELSE FenwickPair(s, index)
         IN  InsertInto(IF first \/ last THEN s ELSE _fenwick_index(s, index),
                        p[1], p[2], value)

\* A negative index is clamped and never takes the append branch.
insert(s, index, value) ==
    IF s.len = 0 THEN FirstSegment(s, value)
    ELSE IF index >= 0 /\ index >= s.len THEN append(s, value)
    ELSE InsertAt(s, IF index < 0 THEN Max(index + s.len, 0) ELSE index, value)

\* Where __getitem__ and __setitem__ look for index: <<segment, offset>>,
\* or <<>> when the lookup raises IndexError.
Locate(s, index0) ==
    LET index == RangeIndex(s.len, index0) IN
    IF index < 0 \/ s.lens = <<>> THEN <<>>
    ELSE IF index < s.lens[1] THEN <<0, index>>
    ELSE IF index + s.lens[Len(s.lens)] >= s.len
         THEN <<-1, index - s.len + s.lens[Len(s.lens)]>>
    ELSE FenwickPair(s, index)

\* The fast paths of __getitem__ leave the tree alone.
UsesFenwick(s, index0) ==
    LET index == RangeIndex(s.len, index0) IN
    /\ index >= 0 /\ s.lens # <<>>
    /\ index >= s.lens[1]
    /\ index + s.lens[Len(s.lens)] < s.len

\* The state after the lookup and the access of the segment found.
Access(s, index0) ==
    LET p == Locate(s, index0) IN
    IF p = <<>> THEN Raise(s, "IndexError")
    ELSE Then(_cache_chunk(IF UsesFenwick(s, index0) THEN _fenwick_index(s, index0) ELSE s,
                           p[1]),
              LAMBDA t : IF RangeIndex(ChunkLen(t, p[1]), p[2]) < 0
                         THEN Raise(t, "IndexError") ELSE t)

__getitem__(s, index) == Access(s, index)
\* the value __getitem__ returns, read in the state it leaves
Got(t, s, index) ==
    LET p == Locate(s, index)
        c == Chunk(t, FileAt(t, p[1]))
    IN  c[RangeIndex(Len(c), p[2]) + 1]

__setitem__(s, index, value) ==
    Then(Access(s, index), LAMBDA t :
        LET p == Locate(s, index)
            c == Chunk(t, FileAt(t, p[1]))
        IN  Mutate(t, FileAt(t, p[1]), [c EXCEPT ![RangeIndex(Len(c), p[2]) + 1] = value]))

(***************************************************************************)
(* __delitem__                                                             *)
(***************************************************************************)
\* del self._cache_chunk(index)[j]
DelAt(s, index, j) ==
    Then(_cache_chunk(s, index), LAMBDA t :
        LET c == Chunk(t, FileAt(t, index))
            k == RangeIndex(Len(c), j)
        IN  IF k < 0 THEN Raise(t, "IndexError")
            ELSE Mutate(t, FileAt(t, index), ListRemove(c, k)))

\* del self[index] for an integer index
_delitem_index(s, index0) ==
    LET index == RangeIndex(s.len, index0) IN
    IF index < 0 \/ s.lens = <<>> THEN Raise(s, "IndexError")
    ELSE IF index + s.lens[Len(s.lens)] >= s.len
         THEN \* the method called next, _fenwick_udpate, does not exist
              Then(DelAt(s, -1, index + s.lens[Len(s.lens)] - s.len),
                   LAMBDA t : Raise(t, "AttributeError"))
    ELSE IF index >= s.lens[1]
         THEN LET p == FenwickPair(s, index)
                  t1 == DelAt(_fenwick_index(s, index), p[1], p[2])
                  t2 == Then(t1, LAMBDA u : _fenwick_update(u, p[1], -1))
              IN  Then(t2, LAMBDA u : _balance(u, p[1]))
    ELSE IF s.len = 1
         THEN Then(_del_chunk(s, 0), LAMBDA t : [t EXCEPT !.fenwick = None, !.len = 0])
    ELSE LET t1 == DelAt(s, 0, index)
             t2 == Then(t1, LAMBDA u : _fenwick_update(u, 0, -1))
         IN  Then(t2, LAMBDA u : _balance(u, 0))

\* The loop dropping whole segments at end `at` (0 or -1): <<state, size left>>
\* after at most k more rounds.
RECURSIVE DropWhole(_, _, _, _)
DropWhole(s, at, size, k) ==
    IF k = 0 \/ s.err # OK THEN <<s, size>>
    ELSE IF s.lens = <<>> THEN <<Raise(s, "IndexError"), size>>
    ELSE LET l == IF at = 0 THEN s.lens[1] ELSE s.lens[Len(s.lens)] IN
         IF size < l THEN <<s, size>>
         ELSE DropWhole(_del_chunk(s, at), at, size - l, k - 1)

\* del self[:size] (at = 0) and del self[-size:] (at = -1)
DelEnd(s, at, size0) ==
    Let(DropWhole(s, at, size0, Len(s.lens)), LAMBDA r :
        IF r[2] = 0 THEN r[1]
        ELSE Then(Then(Then(r[1],
                 LAMBDA u : Touch(u, at, LAMBDA c : DelSlice(c, 0, r[2]))),
                 LAMBDA u : _fenwick_update(u, at, -r[2])),
                 LAMBDA u : _balance(u, at)))

\* The files of segments k, k - 1, ..., lo are unlinked and dropped from
\* the cache.
RECURSIVE UnlinkRange(_, _, _)
UnlinkRange(s, lo, k) ==
    IF k < lo THEN s
    ELSE IF ~HasFile(s, k) THEN Raise(s, "IndexError")
    ELSE IF FileAt(s, k) \notin DOMAIN s.seg THEN Raise(s, "FileNotFoundError")
    ELSE UnlinkRange(CacheRemove([s EXCEPT !.seg = Unlink(s.seg, FileAt(s, k))],
                                 FileAt(s, k)),
                     lo, k - 1)

\* del self[start:stop] inside the list, start in segment a, stop in b
DelInterior(s, start, stop, size) ==
    LET s0 == _fenwick_index(s, start)
        a == FenwickPair(s, start)
        b == FenwickPair(s0, stop)
    IN  IF a[1] = b[1] \/ (a[1] + 1 = b[1] /\ b[2] = 0)
        THEN LET t1 == Touch(s0, a[1], LAMBDA c : DelSlice(c, a[2], a[2] + size))
                 t2 == Then(t1, LAMBDA u : _fenwick_update(u, a[1], -size))
             IN  Then(t2, LAMBDA u : _balance(u, a[1]))
        ELSE LET t1 == UnlinkRange(s0, a[1] + 1, b[1] - 1)
                 t2 == Then(t1, LAMBDA u :
                          [u EXCEPT !.filenames = DelSlice(u.filenames, a[1] + 1, b[1]),
                                    !.lens = DelSlice(u.lens, a[1] + 1, b[1]),
                                    !.fenwick = None])
                 t3 == Then(t2, LAMBDA u : Touch(u, a[1], LAMBDA c : Slice(c, 0, a[2])))
                 t4 == Then(t3, LAMBDA u :
                          IF a[1] >= Len(u.lens) THEN Raise(u, "IndexError")
                          ELSE [u EXCEPT !.lens[a[1] + 1] = a[2]])
                 t5 == Then(t4, LAMBDA u : Touch(u, a[1] + 1, LAMBDA c : DelSlice(c, 0, b[2])))
                 t6 == Then(t5, LAMBDA u :
                          IF a[1] + 1 >= Len(u.lens) THEN Raise(u, "IndexError")
                          ELSE [u EXCEPT !.lens[a[1] + 2] = u.lens[a[1] + 2] - b[2]])
             IN  Then(t6, LAMBDA u : _balance(u, a[1]))

\* del self[start0:stop0], a slice of step 1 with bounds that are not None
_delitem_slice(s, start0, stop0) ==
    LET len_ == Max(s.len, 0)
        start == Bound(len_, start0)
        stop == Bound(len_, stop0)
        size == Max(stop - start, 0)
    IN  IF size = s.len THEN clear(s)
        ELSE IF size = 0 THEN s
        ELSE IF start = 0 \/ stop = s.len THEN DelEnd(s, IF start = 0 THEN 0 ELSE -1, size)
        ELSE DelInterior(s, start, stop, size)

(***************************************************************************)
(* reverse, extend                                                         *)
(***************************************************************************)
RECURSIVE ReverseChunks(_, _)
ReverseChunks(s, i) ==
    IF i >= Len(s.lens) \/ s.err # OK THEN s
    ELSE ReverseChunks(Touch(s, i, LAMBDA c : Reverse(c)), i + 1)

reverse(s) ==
    Then(ReverseChunks(s, 0), LAMBDA t :
        [t EXCEPT !.fenwick = None, !.filenames = Reverse(t.filenames),
                  !.lens = Reverse(t.lens)])

\* The first statements of both branches of extend: a single segment shorter
\* than CHUNKSIZE_EXTENDED takes the head of the items.
FillSingle(s, head) ==
    LET t1 == Touch(s, 0, LAMBDA c : c \o head)
        t2 == Then(t1, LAMBDA u : [u EXCEPT !.len = u.len + ChunkLen(u, 0) - u.lens[1]])
    IN  Then(t2, LAMBDA u : _fenwick_update(u, 0, ChunkLen(u, 0) - u.lens[1]))

\* n times the value v
Repeat(v, n) == [k \in 1..n |-> v]

\* extend(iterable) where iterable is the list items
_extend_list(s, items) ==
    IF Len(items) = 0 THEN s
    ELSE LET fill == Len(s.lens) = 1 /\ s.lens[1] < CHUNKSIZE_EXTENDED
             offset == IF fill THEN CHUNKSIZE_EXTENDED - s.lens[1] ELSE 0
             t1 == IF fill THEN FillSingle(s, Slice(items, 0, offset)) ELSE s
             body(t) ==
                 IF offset < Len(items)
                 THEN \* first round of the loop: the file is written and named,
                      \* then `chunk` is read before any assignment to it
                      LET u == InsertNewFile(t, Len(t.filenames)) IN
                      Raise([u EXCEPT !.seg = Write(u.seg, FileAt(u, -1),
                                                    Slice(items, offset, offset + CHUNKSIZE_EXTENDED))],
                            "UnboundLocalError")
                 ELSE IF Len(items) = offset THEN t
                 ELSE LET rem == Len(items) - offset
                          tail == rem % CHUNKSIZE_EXTENDED
                          lens == t.lens \o Repeat(CHUNKSIZE_EXTENDED,
                                                   Max(rem \div CHUNKSIZE_EXTENDED, 0))
                                        \o (IF tail = 0 THEN <<>> ELSE <<tail>>)
                          u == [t EXCEPT !.len = t.len + rem, !.lens = lens]
                      IN  IF Len(lens) > Len(t.lens) \/ ~t.fenwick.present THEN u
                          ELSE \* `segments` is read and was never assigned
                               Raise(u, "UnboundLocalError")
         IN  Then(t1, body)

\* The loop of the iterator branch: <<state, segments, chunk>> at its end.
RECURSIVE ExtendLoop(_, _, _)
ExtendLoop(s, items, segments) ==
    LET chunk == Slice(items, 0, CHUNKSIZE_EXTENDED) IN
    IF chunk = <<>> THEN <<s, segments, chunk>>
    ELSE LET u == InsertNewFile(s, Len(s.filenames))
             t == [u EXCEPT !.seg = Write(u.seg, FileAt(u, -1), chunk)]
         IN  IF Len(chunk) < CHUNKSIZE_EXTENDED THEN <<t, segments, chunk>>
             ELSE ExtendLoop(t, SliceFrom(items, CHUNKSIZE_EXTENDED), segments + 1)

\* fenwick[i] += fenwick[i - j] for the entries from i on
RECURSIVE FenwickPatch(_, _)
FenwickPatch(fenwick, i) ==
    IF i >= Len(fenwick) THEN fenwick
    ELSE FenwickPatch(FenwickFold(fenwick, i, IF i = 0 THEN 0 ELSE LowBit(i)), i + 1)

\* extend(iterable) where iterable yields items and is no list
_extend_iter(s, items) ==
    LET fill == Len(s.lens) = 1 /\ s.lens[1] < CHUNKSIZE_EXTENDED
        head == IF fill THEN Slice(items, 0, CHUNKSIZE_EXTENDED - s.lens[1]) ELSE <<>>
    IN  Then(IF fill THEN FillSingle(s, head) ELSE s, LAMBDA t :
        Let(ExtendLoop(t, SliceFrom(items, Len(head)), 0), LAMBDA r :
        Let(Repeat(CHUNKSIZE_EXTENDED, r[2])
                \o (IF Len(r[3]) > 0 THEN <<Len(r[3])>> ELSE <<>>), LAMBDA added :
        Let([r[1] EXCEPT !.len = r[1].len + r[2] * CHUNKSIZE_EXTENDED + Len(r[3]),
                         !.lens = r[1].lens \o added], LAMBDA v :
            IF Len(v.lens) > Len(r[1].lens) \/ ~r[1].fenwick.present THEN v
            ELSE IF r[2] > BitLength(Len(r[1].fenwick.f)) THEN [v EXCEPT !.fenwick = None]
            ELSE [v EXCEPT !.fenwick =
                     Some(FenwickPatch(r[1].fenwick.f \o added, Len(r[1].lens)))]))))

(***************************************************************************)
(* The state machine: one BigList object over the roots, and its files.    *)
(***************************************************************************)
\* Most calls a behaviour makes after the initial state.
MaxOps == 3
\* The roots the list is opened on.
Roots == {0, 1}

\* The object and its files as one record.
Self ==
    [cache |-> _cache, fenwick |-> _fenwick, filenames |-> _filenames, len |-> _len,
     lens |-> _lens, path_count |-> _path_count, path_index |-> _path_index,
     paths |-> _paths, seg |-> disk.seg, counter |-> disk.counter, meta |-> disk.meta,
     roots |-> disk.roots, err |-> OK, hw |-> Len(_cache)]

\* The files of the record t.
Files(t) == [seg |-> t.seg, counter |-> t.counter, meta |-> t.meta, roots |-> t.roots]

\* The variables hold the state t that a call left.
Holds(t) ==
    /\ _cache = t.cache /\ _fenwick = t.fenwick /\ _filenames = t.filenames
    /\ _len = t.len /\ _lens = t.lens /\ _path_count = t.path_count
    /\ _path_index = t.path_index /\ _paths = t.paths
    /\ disk = Files(t)
    /\ hw = t.hw

\* A call named op with arguments args took the object to t and returned ret
\* (<<>> when it returns None or raises).
Do(t, op, args, ret) ==
    /\ _cache' = t.cache /\ _fenwick' = t.fenwick /\ _filenames' = t.filenames
    /\ _len' = t.len /\ _lens' = t.lens /\ _path_count' = t.path_count
    /\ _path_index' = t.path_index /\ _paths' = t.paths
    /\ disk' = Files(t)
    /\ hw' = t.hw
    /\ result' = [err |-> t.err, op |-> op, args |-> args, ret |-> ret]
    /\ steps' = steps + 1

Call(t, op, args, ret) ==
    steps < MaxOps /\ Do(t, op, args, ret) /\ UNCHANGED <<given, obj>>

\* The appends of the values i..k to s, one after the other.
RECURSIVE Build(_, _, _)
Build(s, i, k) == IF i > k \/ s.err # OK THEN s ELSE Build(append(s, i), i + 1, k)

\* The list after construction on fresh roots and k appends.
Built(k) == [Build(__init__(EmptyDisk, Roots), 1, k) EXCEPT !.hw = 0]

\* No call was made yet.
Fresh ==
    /\ result = [err |-> OK, op |-> "init", args |-> <<>>, ret |-> <<>>]
    /\ steps = 0
    /\ given = <<>>
    /\ obj = NoObject

\* The lengths the lists of the initial states were built to by appends:
\* empty, one full segment, two full segments, three segments.
InitSizes == {0, 2 * CHUNKSIZE, 4 * CHUNKSIZE, 4 * CHUNKSIZE + 2}

Init == Fresh /\ \E k \in InitSizes : Holds(Built(k))

\* The value a call stores: distinct from every value stored before.
Value == 100 + steps
\* The items a call to extend passes.
Items(n) == [k \in 1..n |-> 100 * (steps + 1) + k]

\* The ranks calls are made with: the ends, and the recorded segment borders.
Ranks ==
    {0, _len - 1, _len} \cup {Sum(SubSeq(_lens, 1, k)) : k \in 1..Min(Len(_lens), 2)}
\* The lengths of the iterables extend is called with.
ExtendSizes == {0, 1, CHUNKSIZE_EXTENDED, 2 * CHUNKSIZE_EXTENDED + 1}

CallAppend == Call(append(Self, Value), "append", <<Value>>, <<>>)

CallInsert == \E r \in Ranks : Call(insert(Self, r, Value), "insert", <<r, Value>>, <<>>)

CallDelIndex == \E r \in Ranks : Call(_delitem_index(Self, r), "delindex", <<r>>, <<>>)

CallDelSlice ==
    \E a \in Ranks, b \in Ranks :
        /\ a < b
        /\ Call(_delitem_slice(Self, a, b), "delslice", <<a, b>>, <<>>)

CallGet ==
    \E r \in Ranks :
        Let(__getitem__(Self, r), LAMBDA t :
            Call(t, "get", <<r>>, IF t.err = OK THEN <<Got(t, Self, r)>> ELSE <<>>))

CallSet == \E r \in Ranks : Call(__setitem__(Self, r, Value), "set", <<r, Value>>, <<>>)

CallExtendList == \E n \in ExtendSizes : Call(_extend_list(Self, Items(n)), "extend_list", <<n>>, <<>>)

CallExtendIter == \E n \in ExtendSizes : Call(_extend_iter(Self, Items(n)), "extend_iter", <<n>>, <<>>)

CallReverse == Call(reverse(Self), "reverse", <<>>, <<>>)

CallClear == Call(clear(Self), "clear", <<>>, <<>>)

CallCommit == Call(commit(Self), "commit", <<>>, <<>>)

\* Leaving the with-block (__exit__ commits) and constructing a new BigList
\* on the same roots.
CallReopen == Call(__init__(Files(commit(Self)), Roots), "reopen", <<>>, <<>>)

Next ==
    \/ CallAppend \/ CallInsert \/ CallDelIndex \/ CallDelSlice \/ CallGet \/ CallSet
    \/ CallExtendList \/ CallExtendIter \/ CallReverse \/ CallClear \/ CallCommit
    \/ CallReopen

Spec == Init /\ [][Next]_vars

(***************************************************************************)
(* What the states are checked against.                                    *)
(***************************************************************************)
\* The last call returned: it raised nothing.
Returned == result.err = OK

\* The elements segment i (from 1) holds: its list in the cache, or its file.
Held(i) ==
    IF i > Len(_filenames) THEN <<>>
    ELSE IF InCache(Self, _filenames[i]) THEN Chunk(Self, _filenames[i])
    ELSE IF _filenames[i] \in DOMAIN disk.seg THEN disk.seg[_filenames[i]]
    ELSE <<>>

\* The concatenation of segments 1..k in order.
RECURSIVE Concat(_)
Concat(k) == IF k = 0 THEN <<>> ELSE Concat(k - 1) \o Held(k)

\* The sequence the list stands for.
Contents == Concat(Len(_filenames))

\* The prefix sum a Fenwick list f yields for the first i segments.
RECURSIVE FenwickPrefix(_, _)
FenwickPrefix(f, i) == IF i = 0 THEN 0 ELSE f[i + 1] + FenwickPrefix(f, i - LowBit(i))

\* The Fenwick list f has an entry per segment and one more, and yields the
\* prefix sums of lens.
FenwickAgrees(f, lens) ==
    /\ Len(f) = Len(lens) + 1
    /\ \A i \in 0..Len(lens) : FenwickPrefix(f, i) = Sum(SubSeq(lens, 1, i))

\* C1: after every public mutation returns, the total _len that len() reports
\* equals the sum of the recorded segment lengths _lens.
C1_LenIsSumOfLens ==
    (Returned /\ result.op \in {"append", "insert", "delindex", "delslice",
                                "extend_list", "extend_iter", "reverse", "clear"})
        => _len = Sum(_lens)

\* C2: at the return of every public operation, every recorded length
\* _lens[i] is the number of elements segment i holds, in the cache or on disk.
C2_LensAreSegmentSizes ==
    (Returned /\ result.op # "init")
        => \A i \in 1..Len(_lens) :
              i <= Len(_filenames) /\ _lens[i] = Len(Held(i))

\* C3: with at least two segments, at the return of append, insert, index
\* deletion, slice deletion and extend every recorded segment length lies in
\* [CHUNKSIZE / 2, 2 * CHUNKSIZE].
C3_LensInRange ==
    (Returned /\ Len(_lens) >= 2
        /\ result.op \in {"append", "insert", "delindex", "delslice",
                          "extend_list", "extend_iter"})
        => \A i \in 1..Len(_lens) :
              CHUNKSIZE \div 2 <= _lens[i] /\ _lens[i] <= 2 * CHUNKSIZE

\* The pair p names rank r by the recorded lengths: a segment p[1] and the
\* offset r minus the lengths before it, inside that segment.
PairAgrees(p, r) ==
    /\ 0 <= p[1] /\ p[1] < Len(_lens)
    /\ p[2] = r - Sum(SubSeq(_lens, 1, p[1]))
    /\ 0 <= p[2] /\ p[2] < _lens[p[1] + 1]

\* C5: for every rank r below the length len() reports, _fenwick_index(r)
\* returns the segment and offset the recorded lengths give, and get(r)
\* returns element r of the concatenation of the segments in order.
C5_LocateAndGet ==
    Returned =>
        \A r \in 0..(_len - 1) :
            /\ PairAgrees(FenwickPair(Self, r), r)
            /\ Let(__getitem__(Self, r), LAMBDA t :
                   /\ t.err = OK
                   /\ r < Len(Contents)
                   /\ Got(t, Self, r) = Contents[r + 1])

\* C7: when extend returns after adding one or more segments while a Fenwick
\* list was present, the list is None or covers all the segments with the
\* prefix sums of the recorded lengths.
C7_ExtendPatchesFenwick ==
    [][(/\ result'.op \in {"extend_list", "extend_iter"} /\ result'.err = OK
        /\ _fenwick.present
        /\ Len(_filenames') > Len(_filenames))
          => (~_fenwick'.present \/ FenwickAgrees(_fenwick'.f, _lens'))]_vars

\* What s[r] gives: the element, or the exception raised.
Outcome(s, r) ==
    Let(__getitem__(s, r), LAMBDA t :
        IF t.err = OK THEN <<OK, Got(t, s, r)>> ELSE <<t.err>>)

\* C10: right after commit() a new BigList constructed on the same roots has
\* the length the committed list reports and gives at every index what the
\* committed list gives.
C10_ReopenYieldsSameList ==
    (result.op = "commit" /\ Returned) =>
        Let(__init__(disk, Roots), LAMBDA new :
            /\ new.err = OK
            /\ new.len = _len
            /\ \A r \in 0..(_len - 1) : Outcome(new, r) = Outcome(Self, r))

(***************************************************************************)
(* Successive inserts at the front of an empty list.                       *)
(***************************************************************************)
\* The number of insert(0, v) calls made.
FrontInserts == 2 * CHUNKSIZE + 5
\* The first calls that choose between two values; the later ones insert 0.
VariedInserts == 6

InsertFront ==
    /\ steps < FrontInserts
    /\ \E v \in (IF steps < VariedInserts THEN {0, 1} ELSE {0}) :
          Do(insert(Self, 0, v), "insert", <<0, v>>, <<>>)
    /\ UNCHANGED <<given, obj>>

InitFront == Fresh /\ Holds(Built(0))

SpecFront == InitFront /\ [][InsertFront]_vars

\* C4: from an empty list, after each of 2 * CHUNKSIZE + 5 successive
\* insert(0, v) calls returns, every segment length, recorded and held, is at
\* most 2 * CHUNKSIZE.
C4_FrontInsertsKeepSegmentsShort ==
    \A i \in 1..Max(Len(_lens), Len(_filenames)) :
        /\ i <= Len(_lens) /\ _lens[i] <= 2 * CHUNKSIZE
        /\ Len(Held(i)) <= 2 * CHUNKSIZE

\* All the inserts were made, and the list was split on the way.
C4_Witness ==
    /\ steps = FrontInserts /\ Returned
    /\ Len(_lens) >= 2 /\ Sum(_lens) = FrontInserts

(***************************************************************************)
(* Point operations: append, insert, index deletion, set, reverse.         *)
(***************************************************************************)
\* The lengths the initial lists were built to: empty, one element before
\* and after the first split, three segments, and one append before the
\* split of the last two of three segments.
PointSizes ==
    {0, 2 * CHUNKSIZE, 2 * CHUNKSIZE + 1, 4 * CHUNKSIZE + 1, 5 * CHUNKSIZE + 3}

InitPoint == Fresh /\ \E k \in PointSizes : Holds(Built(k))

NextPoint == CallAppend \/ CallInsert \/ CallDelIndex \/ CallSet \/ CallReverse

SpecPoint == InitPoint /\ [][NextPoint]_vars

\* C6: in every state reached by append, insert, index deletion, set and
\* reverse, a Fenwick list that is present has one entry per segment and one
\* more, and yields the prefix sums of the recorded lengths; so after a change
\* of the segment count it was patched at the tail or set to None.
C6_FenwickAgreesWithLens ==
    _fenwick.present => FenwickAgrees(_fenwick.f, _lens)

\* An append split the last two of three segments while a Fenwick list was
\* present (no initial list has one, and a split builds none): the list was
\* patched at the tail.
C6_Witness ==
    /\ result.op = "append" /\ Returned
    /\ _fenwick.present /\ Len(_lens) = 4


(***************************************************************************)
(* Calls that go on after a call raised.                                   *)
(***************************************************************************)
\* Most calls of a behaviour of SpecLong.
MaxLongOps == 6
\* The ranks its calls are made with: the ends.
LongRanks == {0, _len}

Within(t, op, args) ==
    steps < MaxLongOps /\ Do(t, op, args, <<>>) /\ UNCHANGED <<given, obj>>

LongAppend == Within(append(Self, Value), "append", <<Value>>)

LongInsert == \E r \in LongRanks : Within(insert(Self, r, Value), "insert", <<r, Value>>)

LongDelIndex == \E r \in LongRanks : Within(_delitem_index(Self, r), "delindex", <<r>>)

LongReverse == Within(reverse(Self), "reverse", <<>>)

LongExtendList ==
    \E n \in {1, CHUNKSIZE_EXTENDED} :
        Within(_extend_list(Self, Items(n)), "extend_list", <<n>>)

NextLong == LongAppend \/ LongInsert \/ LongDelIndex \/ LongReverse \/ LongExtendList

SpecLong == InitFront /\ [][NextLong]_vars

\* C8: in every reachable state, and at every moment inside a call (hw is
\* the largest size the cache had during the last call), the cache holds
\* at most 4 segments.
C8_CacheHoldsAtMostFour == Len(_cache) <= CACHESIZE /\ hw <= CACHESIZE

(***************************************************************************)
(* The segment cache on its own: accesses of the segments of a list of     *)
(* five segments, and in-place changes of the lists the accesses return.   *)
(***************************************************************************)
\* Most accesses of a behaviour of SpecCache.
MaxCacheOps == 6
\* The list the accesses are made on: 4 * CHUNKSIZE_EXTENDED + 1 items
\* extended onto the empty list, five segments.
Stored == _extend_iter(__init__(EmptyDisk, Roots), Items(4 * CHUNKSIZE_EXTENDED + 1))
\* The content of the file name fn of the state t: the cached list, or the file.
ContentOf(t, fn) == IF InCache(t, fn) THEN Chunk(t, fn) ELSE t.seg[fn]
\* The content each file name was last given.
GivenOf(t) == [fn \in {t.filenames[k] : k \in 1..Len(t.filenames)} |-> ContentOf(t, fn)]

InitCache ==
    /\ result = [err |-> OK, op |-> "init", args |-> <<>>, ret |-> <<>>]
    /\ steps = 0
    /\ Holds([Stored EXCEPT !.hw = 0])
    /\ given = GivenOf(Stored)
    /\ obj = NoObject

\* self._cache_chunk(i): ret is the list it returned.
CacheRead ==
    \E i \in 0..(Len(_filenames) - 1) :
        /\ steps < MaxCacheOps
        /\ Let(_cache_chunk(Self, i), LAMBDA t :
               Do(t, "_cache_chunk", <<i>>, Chunk(t, FileAt(Self, i))))
        /\ UNCHANGED <<given, obj>>

\* self._cache_chunk(i).append(v) on the first or the last segment: the
\* segment is given the longer content.
CacheWrite ==
    \E i \in {0, -1} :
        /\ steps < MaxCacheOps
        /\ Let(Touch(Self, i, LAMBDA seg : Append(seg, Value)), LAMBDA t :
               /\ Do(t, "touch", <<i>>, <<>>)
               /\ given' = [given EXCEPT ![FileAt(Self, i)] = Append(@, Value)]
               /\ UNCHANGED obj)

NextCache == CacheRead \/ CacheWrite

SpecCache == InitCache /\ [][NextCache]_vars

\* C9: the list an access returns for a segment is the content the segment
\* was last given, and every segment, cached or evicted to its file, holds
\* the content it was last given.
C9_CacheKeepsContent ==
    /\ (result.op = "_cache_chunk" /\ Returned) =>
           result.ret = given[FileAt(Self, result.args[1])]
    /\ \A fn \in DOMAIN given : fn \in DOMAIN disk.seg /\ ContentOf(Self, fn) = given[fn]

\* A segment that was changed and then evicted is read again: the access
\* returns the changed content, which the cache had dropped and the file kept.
C9_Witness ==
    /\ result.op = "_cache_chunk" /\ Returned
    /\ hw = CACHESIZE
    /\ Let(FileAt(Self, result.args[1]), LAMBDA fn :
           /\ result.ret # GivenOf(Stored)[fn]
           /\ result.ret = disk.seg[fn])

(***************************************************************************)
(* BigDict (advanced_collections/_src/big_dict.py): a mapping kept as      *)
(* segments ordered by (hash(key), key), one pickled dict per segment.     *)
(* A dict is a function from its keys to their values; a file name is the  *)
(* number uid of "<uid>.txt"; d.meta holds the files filenames.txt,        *)
(* lens.txt, mins.txt and counter.txt of the directory.                    *)
(***************************************************************************)
\* hash(key) of a small non-negative int
Hash(key) == key
\* a < b for (hash, key) tuples
PairLess(a, b) == a[1] < b[1] \/ (a[1] = b[1] /\ a[2] < b[2])

\* bisect.bisect(a, x)
RECURSIVE BisectFrom(_, _, _, _)
BisectFrom(a, x, lo, hi) ==
    IF lo >= hi THEN lo
    ELSE LET mid == (lo + hi) \div 2 IN
         IF PairLess(x, a[mid + 1]) THEN BisectFrom(a, x, lo, mid)
         ELSE BisectFrom(a, x, mid + 1, hi)
bisect(a, x) == BisectFrom(a, x, 0, Len(a))

EmptyDict == [k \in {} |-> 0]
\* chunk[key] = value
DictPut(chunk, key, value) ==
    [k \in DOMAIN chunk \cup {key} |-> IF k = key THEN value ELSE chunk[k]]

\* A directory with no file in it.
EmptyDir == [seg |-> <<>>, meta |-> <<>>]

\* BigDict(path) on the directory dir: the object, with the files as it
\* leaves them; err is AssertionError when the assertion fails.
BigDict__init__(dir) ==
    LET m1 == ensure_file(dir.meta, "filenames.txt", <<>>)
        m2 == ensure_file(m1, "lens.txt", <<>>)
        m3 == ensure_file(m2, "mins.txt", <<>>)
        sound == /\ Len(m3["filenames.txt"]) = Len(m3["lens.txt"])
                 /\ Len(m3["lens.txt"]) = Len(m3["mins.txt"])
    IN  [class |-> "BigDict", cache |-> <<>>, filenames |-> m3["filenames.txt"],
         lens |-> m3["lens.txt"], mins |-> m3["mins.txt"],
         len |-> IF sound THEN Sum(m3["lens.txt"]) ELSE 0,
         seg |-> dir.seg,
         meta |-> IF sound THEN ensure_file(m3, "counter.txt", 0) ELSE m3,
         err |-> IF sound THEN OK ELSE "AssertionError", hw |-> 0]

BigDict_commit_chunk(d, filename, segment) ==
    [d EXCEPT !.seg = Write(d.seg, filename, segment)]

BigDict_free_cache(d) ==
    IF Len(d.cache) = CACHESIZE
    THEN BigDict_commit_chunk([d EXCEPT !.cache = Tail(d.cache)],
                              d.cache[1].fn, d.cache[1].seg)
    ELSE d

\* The state after self._cache_chunk(index); the dict it returns is
\* Chunk(state, FileAt(d, index)).
BigDict_cache_chunk(d, index) ==
    IF ~HasFile(d, index) THEN Raise(d, "IndexError")
    ELSE LET filename == FileAt(d, index) IN
         IF InCache(d, filename)
         THEN [d EXCEPT !.cache = Append(ListRemove(d.cache, CachePos(d, filename) - 1),
                                         d.cache[CachePos(d, filename)])]
         ELSE Then(BigDict_free_cache(d), LAMBDA t :
                  IF filename \notin DOMAIN t.seg THEN Raise(t, "FileNotFoundError")
                  ELSE CachePut(t, filename, t.seg[filename]))

BigDict_get_filename(d) ==
    IF "counter.txt" \notin DOMAIN d.meta THEN Raise(d, "FileNotFoundError")
    ELSE [d EXCEPT !.meta = Write(d.meta, "counter.txt", d.meta["counter.txt"] + 1),
                   !.seg = Write(d.seg, d.meta["counter.txt"], EmptyDict)]

\* The first key of an empty mapping: a new segment, put into the cache.
BigDictFirstSegment(d, hkey, key) ==
    Then(BigDict_get_filename(d), LAMBDA t :
    Let([t EXCEPT !.filenames = Append(t.filenames, d.meta["counter.txt"])], LAMBDA u :
        [CachePut(u, FileAt(u, 0), EmptyDict) EXCEPT !.lens = Append(u.lens, 0),
                                                      !.mins = Append(u.mins, <<hkey, key>>)]))

BigDict__setitem__(d, key, value) ==
    Let(bisect(d.mins, <<Hash(key), key>>), LAMBDA at :
    Let(IF at > 0 THEN at - 1 ELSE at, LAMBDA index :
    Then(IF d.len = 0 THEN BigDictFirstSegment(d, Hash(key), key) ELSE d, LAMBDA t :
    Then(BigDict_cache_chunk(t, index), LAMBDA u :
    Let(Chunk(u, FileAt(u, index)), LAMBDA chunk :
    Let(Cardinality(DOMAIN DictPut(chunk, key, value)) - Cardinality(DOMAIN chunk),
        LAMBDA grown :
        IF index >= Len(u.lens) THEN Raise(u, "IndexError")
        ELSE [Mutate(u, FileAt(u, index), DictPut(chunk, key, value)) EXCEPT
                 !.lens[index + 1] = @ + grown,
                 !.len = @ + grown,
                 !.mins[index + 1] =
                     IF PairLess(<<Hash(key), key>>, @) THEN <<Hash(key), key>> ELSE @]))))))

\* The state after self[key]: KeyError when no segment can hold the key or
\* the segment found does not.
BigDict__getitem__(d, key) ==
    Let(bisect(d.mins, <<Hash(key), key>>), LAMBDA at :
        IF at = 0 THEN Raise(d, "KeyError")
        ELSE Then(BigDict_cache_chunk(d, at - 1), LAMBDA t :
                 IF key \in DOMAIN Chunk(t, FileAt(t, at - 1)) THEN t
                 ELSE Raise(t, "KeyError")))
\* the value self[key] returns, read in the state t it leaves
BigDictGot(t, d, key) ==
    Chunk(t, FileAt(t, bisect(d.mins, <<Hash(key), key>>) - 1))[key]

RECURSIVE BigDictCommitCache(_, _)
BigDictCommitCache(d, k) ==
    IF k > Len(d.cache) THEN d
    ELSE BigDictCommitCache(BigDict_commit_chunk(d, d.cache[k].fn, d.cache[k].seg), k + 1)

BigDict__exit__(d) ==
    BigDictCommitCache(
        [d EXCEPT !.meta = Write(Write(d.meta, "filenames.txt", d.filenames),
                                 "lens.txt", d.lens)], 1)

(***************************************************************************)
(* The state machine of one BigDict on one directory.                      *)
(***************************************************************************)
\* Most calls of a behaviour of SpecDict.
MaxDictOps == 4
\* The keys and the values of the calls.
Keys == 0..3
DictValues == {0, 1}

\* The BigDict, no exception raised, the cache as large as it is.
TheDict == [obj EXCEPT !.err = OK, !.hw = Len(obj.cache)]
\* The directory of the state t.
DirOf(t) == [seg |-> t.seg, meta |-> t.meta]
\* The last call was a constructor that raised: there is no object.
NoDict == result.op = "reopen" /\ result.err # OK

DictCall(t, op, args, ret) ==
    /\ steps < MaxDictOps
    /\ ~NoDict
    /\ obj' = t
    /\ result' = [err |-> t.err, op |-> op, args |-> args, ret |-> ret]
    /\ steps' = steps + 1
    /\ UNCHANGED <<_cache, _fenwick, _filenames, _len, _lens, _path_count,
                   _path_index, _paths, disk, hw, given>>

InitDict ==
    /\ result = [err |-> OK, op |-> "init", args |-> <<>>, ret |-> <<>>]
    /\ steps = 0
    /\ given = <<>>
    /\ Holds(Built(0))
    /\ obj = BigDict__init__(EmptyDir)

DictSet ==
    \E k \in Keys, v \in DictValues :
        DictCall(BigDict__setitem__(TheDict, k, v), "set", <<k, v>>, <<>>)

DictGet ==
    \E k \in Keys :
        Let(BigDict__getitem__(TheDict, k), LAMBDA t :
            DictCall(t, "get", <<k>>,
                     IF t.err = OK THEN <<BigDictGot(t, TheDict, k)>> ELSE <<>>))

\* Leaving the with-block and constructing a new BigDict on the directory.
DictReopen ==
    DictCall(BigDict__init__(DirOf(BigDict__exit__(TheDict))), "reopen", <<>>, <<>>)

NextDict == DictSet \/ DictGet \/ DictReopen

SpecDict == InitDict /\ [][NextDict]_vars

\* What self[key] gives in the state d: the value, or the exception.
DictOutcome(d, key) ==
    Let(BigDict__getitem__(d, key), LAMBDA t :
        IF t.err = OK THEN <<OK, BigDictGot(t, d, key)>> ELSE <<t.err>>)

\* C11: leaving the with-block and opening a BigDict on the same directory
\* succeeds and gives the same len() and the same get(k) for every key.
C11_DictReopenYieldsSameMapping ==
    [][result'.op = "reopen" =>
          /\ result'.err = OK
          /\ obj'.len = obj.len
          /\ \A k \in Keys :
                 DictOutcome([obj' EXCEPT !.err = OK], k) = DictOutcome(TheDict, k)]_vars

(***************************************************************************)
(* BigList: what each call does to the sequence.                           *)
(***************************************************************************)
\* The list after the step.
SelfAfter == Self'
\* The step is a call of op that returned.
StepOf(op) == result'.op = op /\ result'.err = OK

\* C12: after append(v) returns, len() is one greater, get(len() - 1) is v
\* and get(r) is what it was for every index r of the list before.
C12_AppendAddsAtEnd ==
    [][StepOf("append") =>
          /\ _len' = _len + 1
          /\ Outcome(SelfAfter, _len) = <<OK, result'.args[1]>>
          /\ \A r \in 0..(_len - 1) : Outcome(SelfAfter, r) = Outcome(Self, r)]_vars

\* The index r of insert clamped to [0, n], a negative r counted from the end.
Clamped(r, n) == IF r < 0 THEN Max(r + n, 0) ELSE Min(r, n)

\* C13: after insert(r, v) returns, len() is one greater and the sequence is
\* old[:r] + [v] + old[r:] for the clamped r.
C13_InsertPutsAtIndex ==
    [][StepOf("insert") =>
          Let(Clamped(result'.args[1], _len), LAMBDA r :
              /\ _len' = _len + 1
              /\ Outcome(SelfAfter, r) = <<OK, result'.args[2]>>
              /\ \A i \in 0..(_len - 1) :
                     Outcome(SelfAfter, IF i < r THEN i ELSE i + 1) = Outcome(Self, i))]_vars

\* C14: del lst[r] for a valid index r returns without raising, len() is one
\* less, the sequence is old[:r] + old[r+1:] and no segment is left empty.
C14_DelIndexRemovesOne ==
    [][(result'.op = "delindex" /\ RangeIndex(_len, result'.args[1]) >= 0) =>
          Let(RangeIndex(_len, result'.args[1]), LAMBDA r :
              /\ result'.err = OK
              /\ _len' = _len - 1
              /\ \A i \in 0..(_len - 2) :
                     Outcome(SelfAfter, i) = Outcome(Self, IF i < r THEN i ELSE i + 1)
              /\ \A k \in 1..Len(_lens') : _lens'[k] > 0 /\ Held(k)' # <<>>)]_vars

\* C15: after del lst[start:stop] returns, len() is stop - start less and
\* the sequence is old[:start] + old[stop:].
C15_DelSliceRemovesRange ==
    [][StepOf("delslice") =>
          Let(Clamped(result'.args[1], _len), LAMBDA start :
          Let(Max(Clamped(result'.args[2], _len), start) - start, LAMBDA size :
              /\ _len' = _len - size
              /\ \A i \in 0..(_len - size - 1) :
                     Outcome(SelfAfter, i)
                         = Outcome(Self, IF i < start THEN i ELSE i + size)))]_vars

\* C16: get(r) and set(r, v) return for the integers r in [-N, N) and for no
\* other; for the others they raise IndexError and leave the sequence,
\* _lens and _filenames as they were.
C16_IndexRange ==
    [][result'.op \in {"get", "set"} =>
          IF -_len <= result'.args[1] /\ result'.args[1] < _len
          THEN result'.err = OK
          ELSE /\ result'.err = "IndexError"
               /\ _lens' = _lens /\ _filenames' = _filenames
               /\ Contents' = Contents]_vars

\* C17: after reverse() returns, len() is unchanged and get(r) is the old
\* get(N - 1 - r); a second reverse() gives the old get(r) again.
C17_ReverseMirrors ==
    [][StepOf("reverse") =>
          /\ _len' = _len
          /\ \A r \in 0..(_len - 1) : Outcome(SelfAfter, r) = Outcome(Self, _len - 1 - r)
          /\ Let(reverse(SelfAfter), LAMBDA t :
                 /\ t.err = OK
                 /\ t.len = _len
                 /\ \A r \in 0..(_len - 1) : Outcome(t, r) = Outcome(Self, r))]_vars

\* C18: extend(iterable), with a list or with an iterator, returns without
\* raising; afterwards len() has grown by the number of items, the sequence
\* is the old one followed by the items, and a last segment that held fewer
\* than CHUNKSIZE_EXTENDED elements was filled in place first.
C18_ExtendAddsItems ==
    [][result'.op \in {"extend_list", "extend_iter"} =>
          Let(Items(result'.args[1]), LAMBDA items :
              /\ result'.err = OK
              /\ _len' = _len + Len(items)
              /\ \A r \in 0..(_len - 1) : Outcome(SelfAfter, r) = Outcome(Self, r)
              /\ \A k \in 1..Len(items) :
                     Outcome(SelfAfter, _len + k - 1) = <<OK, items[k]>>
              /\ (_lens # <<>> /\ _lens[Len(_lens)] < CHUNKSIZE_EXTENDED) =>
                     /\ Len(_lens') >= Len(_lens)
                     /\ _lens'[Len(_lens)]
                            = Min(CHUNKSIZE_EXTENDED, _lens[Len(_lens)] + Len(items)))]_vars

(***************************************************************************)
(* BigList.aextend: the coroutine, step by step.  A frame holds the local  *)
(* names of the call and the await it is suspended at (pc):                *)
(*   "fill"   the async for of the fill loop,                              *)
(*   "loop"   the async for of the main loop,                              *)
(*   "yield"  asyncio.sleep(0) after a full chunk,                         *)
(*   "patch"  asyncio.sleep(0) in the loop over the Fenwick tree,          *)
(*   "returned", "cancelled"  the call is over.                            *)
(* consumed and before are history: the elements the iterable delivered    *)
(* and the sequence at the call.                                           *)
(***************************************************************************)
NewFrame ==
    [class |-> "coroutine", pc |-> "loop", i |-> 0, hi |-> 0, chunk |-> <<>>,
     segments |-> 0, raising |-> FALSE, consumed |-> <<>>, before |-> <<>>]

\* The loop over the Fenwick tree from its head: one round up to the await,
\* or the end of the call.
aextend_patch(s, co) ==
    IF co.i < co.hi
    THEN <<[s EXCEPT !.fenwick =
               Some(FenwickFold(s.fenwick.f, co.i, IF co.i = 0 THEN 0 ELSE LowBit(co.i)))],
           [co EXCEPT !.pc = "patch", !.i = co.i + 1]>>
    ELSE <<s, [co EXCEPT !.pc = IF co.raising THEN "cancelled" ELSE "returned"]>>

\* The finally block, up to the first await of its loop.
aextend_finally(s, co) ==
    Let(Repeat(CHUNKSIZE_EXTENDED, co.segments)
            \o (IF Len(co.chunk) > 0 THEN <<Len(co.chunk)>> ELSE <<>>), LAMBDA added :
    Let([s EXCEPT !.len = s.len + co.segments * CHUNKSIZE_EXTENDED + Len(co.chunk),
                  !.lens = s.lens \o added], LAMBDA v :
        IF Len(v.lens) > Len(s.lens) \/ ~s.fenwick.present
        THEN aextend_patch(v, [co EXCEPT !.i = 0, !.hi = 0])
        ELSE IF co.segments > BitLength(Len(s.fenwick.f))
        THEN aextend_patch([v EXCEPT !.fenwick = None], [co EXCEPT !.i = 0, !.hi = 0])
        ELSE aextend_patch([v EXCEPT !.fenwick = Some(s.fenwick.f \o added)],
                           [co EXCEPT !.i = Len(s.lens),
                                      !.hi = Len(s.fenwick.f \o added)])))

\* The head of the main loop: a new chunk, and the await of its first element.
aextend_await(s, co) ==
    <<s, [co EXCEPT !.pc = "loop", !.i = CHUNKSIZE_EXTENDED, !.chunk = <<>>]>>

\* The main loop after its async for: the chunk becomes a segment file.
aextend_chunk(s, co) ==
    IF co.chunk = <<>> THEN aextend_finally(s, co)
    ELSE Let(InsertNewFile(s, Len(s.filenames)), LAMBDA u :
         Let([u EXCEPT !.seg = Write(u.seg, FileAt(u, -1), co.chunk)], LAMBDA t :
             IF Len(co.chunk) < CHUNKSIZE_EXTENDED THEN aextend_finally(t, co)
             ELSE <<t, [co EXCEPT !.segments = co.segments + 1, !.pc = "yield"]>>))

\* The statements after the fill loop: the length and the Fenwick tree
\* take up what the first segment grew by.
aextend_filled(s) ==
    Then(_cache_chunk(s, 0), LAMBDA u :
    Let(ChunkLen(u, 0) - u.lens[1], LAMBDA grown :
        _fenwick_update([u EXCEPT !.len = u.len + grown], 0, grown)))

\* aextend(iterable), up to its first await.
aextend_call(s) ==
    IF Len(s.lens) = 1 /\ s.lens[1] < CHUNKSIZE_EXTENDED
    THEN <<_cache_chunk(s, 0),
           [NewFrame EXCEPT !.pc = "fill", !.i = CHUNKSIZE_EXTENDED - s.lens[1]]>>
    ELSE aextend_await(s, NewFrame)

\* The iterable delivers element at the await of an async for.
aextend_element(s, co, element) ==
    IF co.pc = "fill"
    THEN Let(Mutate(s, FileAt(s, 0), Append(Chunk(s, FileAt(s, 0)), element)), LAMBDA t :
             IF co.i - 1 # 0 THEN <<t, [co EXCEPT !.i = co.i - 1]>>
             ELSE aextend_await(aextend_filled(t), co))
    ELSE Let([co EXCEPT !.chunk = Append(co.chunk, element),
                        !.i = co.i - CHUNKSIZE_EXTENDED], LAMBDA c :
             IF c.i # 0 THEN <<s, c>> ELSE aextend_chunk(s, c))

\* The iterable is exhausted at the await of an async for.
aextend_exhausted(s, co) ==
    IF co.pc = "fill"
    THEN aextend_chunk(aextend_filled(s),
                       [co EXCEPT !.i = CHUNKSIZE_EXTENDED, !.chunk = <<>>])
    ELSE aextend_chunk(s, co)

\* The task is cancelled: CancelledError is raised at the await.  Only the
\* awaits of the main loop are inside the try statement.
aextend_cancelled(s, co) ==
    IF co.pc \in {"loop", "yield"} THEN aextend_finally(s, [co EXCEPT !.raising = TRUE])
    ELSE <<s, [co EXCEPT !.pc = "cancelled", !.raising = TRUE]>>

\* The task is resumed after asyncio.sleep(0).
aextend_resumed(s, co) ==
    IF co.pc = "yield" THEN aextend_await(s, co) ELSE aextend_patch(s, co)

(***************************************************************************)
(* The state machine of one call of aextend on a list: the event loop      *)
(* delivers elements, the end of the iterable, a cancellation, or resumes  *)
(* the task.  obj is the frame of the call.                                *)
(***************************************************************************)
\* The lengths of the lists the call is made on: empty, one short segment
\* (with much and with little room), two segments, three segments.
AsyncSizes == {0, 1, 2, CHUNKSIZE_EXTENDED - 2, 2 * CHUNKSIZE + 1, 4 * CHUNKSIZE + 2}

\* The element the iterable delivers next.
NextElement == 1001 + Len(obj.consumed)

Suspended(pcs) == obj.class = "coroutine" /\ obj.pc \in pcs

\* The step took the list to p[1] and the frame to p[2].
Stepped(p, op, args) ==
    /\ Do(p[1], op, args, <<>>)
    /\ obj' = (IF p[1].err = OK THEN p[2] ELSE [p[2] EXCEPT !.pc = "cancelled"])
    /\ UNCHANGED given

InitAsync ==
    /\ Fresh
    /\ \E k \in AsyncSizes : Holds(Built(k))

\* lst[r], before the call.
AsyncGet ==
    /\ obj = NoObject /\ steps = 0
    /\ \E r \in Ranks :
           Let(__getitem__(Self, r), LAMBDA t :
               /\ Do(t, "get", <<r>>, IF t.err = OK THEN <<Got(t, Self, r)>> ELSE <<>>)
               /\ UNCHANGED <<given, obj>>)

AextendCall ==
    /\ obj = NoObject
    /\ Let(aextend_call(Self), LAMBDA p :
           Stepped(<<p[1], [p[2] EXCEPT !.before = Contents]>>, "aextend", <<>>))

AextendElement ==
    /\ Suspended({"fill", "loop"})
    /\ Stepped(aextend_element(Self, [obj EXCEPT !.consumed = Append(@, NextElement)],
                               NextElement),
               "element", <<NextElement>>)

AextendExhausted ==
    /\ Suspended({"fill", "loop"})
    /\ Stepped(aextend_exhausted(Self, obj), "exhausted", <<>>)

AextendCancel ==
    /\ Suspended({"fill", "loop", "yield", "patch"})
    /\ Stepped(aextend_cancelled(Self, obj), "cancel", <<>>)

AextendResume ==
    /\ Suspended({"yield", "patch"})
    /\ Stepped(aextend_resumed(Self, obj), "resume", <<>>)

NextAsync ==
    \/ AsyncGet
    \/ AextendCall
    \/ AextendElement
    \/ AextendExhausted
    \/ AextendCancel
    \/ AextendResume

SpecAsync == InitAsync /\ [][NextAsync]_vars

\* C19: when aextend is cancelled, the list is left consistent: the lengths
\* list has one entry per segment file, each the length of its segment, the
\* length of the list is their sum, and the list is the sequence it was at
\* the call followed by every element the iterable delivered.
C19_CancelledAextendIsConsistent ==
    Suspended({"cancelled"}) =>
        /\ Len(_filenames) = Len(_lens)
        /\ \A k \in 1..Len(_lens) : _lens[k] = Len(Held(k))
        /\ _len = Sum(_lens)
        /\ Contents = obj.before \o obj.consumed

(***************************************************************************)
(* BigList over several roots: lists are closed and constructed again on   *)
(* the roots given, in the order given.                                    *)
(***************************************************************************)
\* Most calls a behaviour makes after the initial state.
MaxRootOps == 3
\* The folders there are.
AllRoots == {0, 1, 2}

\* The elements of the tuple args.
ArgSet(args) == {args[k] : k \in 1..Len(args)}

\* The ways to pass roots to the constructor: every root once, in any order.
RootArgs ==
    {args \in UNION {[1..n -> AllRoots] : n \in 1..Cardinality(AllRoots)} :
        Cardinality(ArgSet(args)) = Len(args)}

\* BigList(args[1], args[2], ...) on the files d
BigList(d, args) == __init__(d, ArgSet(args))

RootsCall(t, op, args) ==
    steps < MaxRootOps /\ Do(t, op, args, <<>>) /\ UNCHANGED <<given, obj>>

InitRootsSpec ==
    /\ Fresh
    /\ \E k \in {0, 3, 2 * CHUNKSIZE + 1} : Holds(Built(k))

RootsAppend == RootsCall(append(Self, Value), "append", <<Value>>)

RootsExtend ==
    \E n \in {CHUNKSIZE_EXTENDED, 2 * CHUNKSIZE_EXTENDED + 1} :
        RootsCall(_extend_iter(Self, Items(n)), "extend_iter", <<n>>)

\* The with-block of the list is left (__exit__ commits) and BigList(*args)
\* is constructed.  When the constructor raises there is no new list: the
\* old one stays, on the files as the constructor left them.
RootsOpen ==
    \E args \in RootArgs :
        Let(commit(Self), LAMBDA c :
        Let(BigList(Files(c), args), LAMBDA t :
            RootsCall(IF t.err = OK THEN t
                      ELSE [c EXCEPT !.roots = t.roots, !.counter = t.counter,
                                     !.err = t.err],
                      "open", <<args>>)))

NextRoots == RootsAppend \/ RootsExtend \/ RootsOpen

SpecRoots == InitRootsSpec /\ [][NextRoots]_vars

\* C20: BigList(*args) succeeds exactly when every root among args that holds
\* a paths file records the set of roots in args; it raises otherwise
\* and the list at hand stays as it is; passing the same roots in another
\* order gives the same list and files; and a list closed and opened again over
\* its own roots, in any order, has the same segments and sequence.
C20_OpenAgreesOnRoots ==
    [][result'.op = "open" =>
          Let(result'.args[1], LAMBDA args :
          Let(Files(commit(Self)), LAMBDA d :
              /\ (result'.err = OK) <=>
                     \A r \in ArgSet(args) :
                         r \in DOMAIN d.roots => ArgSet(d.roots[r]) = ArgSet(args)
              /\ result'.err # OK =>
                     /\ result'.err = "ValueError"
                     /\ _paths' = _paths /\ _filenames' = _filenames /\ _lens' = _lens
                     /\ Contents' = Contents
              /\ \A other \in RootArgs :
                     ArgSet(other) = ArgSet(args) => BigList(d, other) = BigList(d, args)
              /\ (result'.err = OK /\ ArgSet(args) = ArgSet(_paths)) =>
                     /\ _paths' = _paths /\ _filenames' = _filenames /\ _lens' = _lens
                     /\ _len' = Sum(_lens)
                     /\ Contents' = Contents))]_vars

\* A list of several segments over the roots 0 and 1 was opened again over
\* 1 and 0, after an open over other roots had raised and left its paths
\* file behind on root 2.
C20_Witness ==
    /\ result.op = "open" /\ result.err = OK /\ result.args[1] = <<1, 0>>
    /\ Len(_filenames) >= 2 /\ Contents # <<>>
    /\ 2 \in DOMAIN disk.roots /\ disk.roots[2] # <<2>>

(***************************************************************************)
(* BigDict: deletion and balancing.  A segment is a function from its keys *)
(* to their values; DictCHUNKSIZE is CHUNKSIZE of big_dict.py, scaled down *)
(* from 4096 to the smallest value for which every comparison of _balance  *)
(* can go either way.                                                      *)
(***************************************************************************)
DictCHUNKSIZE == 4

\* [(hash(key), key) for key in chunk], as a set
Pairs(chunk) == {<<Hash(k), k>> : k \in DOMAIN chunk}

\* sorted(S) for a set of (hash, key) tuples
RECURSIVE SortPairs(_)
SortPairs(S) ==
    IF S = {} THEN <<>>
    ELSE LET lo == CHOOSE x \in S : \A y \in S \ {x} : PairLess(x, y)
         IN  <<lo>> \o SortPairs(S \ {lo})

\* {key: chunk[key] for _, key in keys}
DictOf(chunk, keys) == [k \in {keys[i][2] : i \in 1..Len(keys)} |-> chunk[k]]
\* chunk after chunk.pop(key) for every key of keys
DictWithout(chunk, keys) ==
    [k \in DOMAIN chunk \ {keys[i][2] : i \in 1..Len(keys)} |-> chunk[k]]
\* a.update(b), and {**a, **b}
DictUpdate(a, b) == [k \in DOMAIN a \cup DOMAIN b |-> IF k \in DOMAIN b THEN b[k] ELSE a[k]]

\* seq[a:b] = items
SetSlice(seq, a, b, items) ==
    SubSeq(seq, 1, Bound(Len(seq), a)) \o items
        \o SubSeq(seq, Max(Bound(Len(seq), a), Bound(Len(seq), b)) + 1, Len(seq))

\* self._cache_chunk(index) followed by an in-place change of the dict it
\* returned to chunk.
BigDictTouch(d, index, chunk) ==
    Then(BigDict_cache_chunk(d, index), LAMBDA t : Mutate(t, FileAt(t, index), chunk))

\* The dict self._cache_chunk(index) returns, read in the state after the call.
BigDictChunk(t, index) == Chunk(t, FileAt(t, index))

BigDict_del_chunk(d, index) ==
    Let(RangeIndex(Len(d.filenames), index), LAMBDA i :
        IF i < 0 THEN Raise(d, "IndexError")
        ELSE Let(d.filenames[i + 1], LAMBDA filename :
             Let([d EXCEPT !.filenames = ListRemove(d.filenames, i)], LAMBDA t :
                 IF filename \notin DOMAIN t.seg THEN Raise(t, "FileNotFoundError")
                 ELSE IF i >= Len(t.lens)
                 THEN Raise([t EXCEPT !.seg = Unlink(t.seg, filename)], "IndexError")
                 ELSE Let([CacheRemove(t, filename) EXCEPT
                              !.seg = Unlink(t.seg, filename),
                              !.len = t.len - t.lens[i + 1],
                              !.lens = ListRemove(t.lens, i)], LAMBDA u :
                          IF i >= Len(u.mins) THEN Raise(u, "IndexError")
                          ELSE [u EXCEPT !.mins = ListRemove(u.mins, i)]))))

\* The dict self._pop_chunk(index) returns, read in the state before the call.
BigDictPopped(d, index) ==
    IF InCache(d, FileAt(d, index)) THEN Chunk(d, FileAt(d, index))
    ELSE d.seg[FileAt(d, index)]

BigDict_pop_chunk(d, index) ==
    IF ~HasFile(d, index) THEN Raise(d, "IndexError")
    ELSE IF InCache(d, FileAt(d, index))
    THEN BigDict_del_chunk(CacheRemove(d, FileAt(d, index)), index)
    ELSE IF FileAt(d, index) \notin DOMAIN d.seg THEN Raise(d, "FileNotFoundError")
    ELSE BigDict_del_chunk(d, index)

\* One segment of more than 2 * CHUNKSIZE keys: the smaller half of its keys
\* moves to a new last segment.
BigDict_balance_single(d) ==
    Then(BigDict_cache_chunk(d, 0), LAMBDA t :
    Let(BigDictChunk(t, 0), LAMBDA chunk :
    Let(SortPairs(Pairs(chunk)), LAMBDA keys :
    Let(Slice(keys, 0, Len(keys) \div 2), LAMBDA low :
    Then(BigDict_get_filename(t), LAMBDA u :
    Let([u EXCEPT !.filenames = Append(u.filenames, t.meta["counter.txt"])], LAMBDA v :
    Let(CachePut(Mutate(v, FileAt(v, 0), DictWithout(chunk, low)),
                 FileAt(v, -1), DictOf(chunk, low)), LAMBDA w :
    Then(BigDict_cache_chunk([w EXCEPT !.lens[1] = Len(keys) - Len(low)], -1), LAMBDA x :
        [x EXCEPT !.lens = Append(x.lens, Cardinality(DOMAIN BigDictChunk(x, -1))),
                  !.mins = <<keys[1], keys[Len(keys) - Len(low) + 1]>>]))))))))

\* The two segments _balance works on at an end of the mapping: the first
\* two (last = FALSE) or the last two, as Python indexes.
PairA(last) == IF last THEN -2 ELSE 0
PairB(last) == IF last THEN -1 ELSE 1
\* seq[i] for a Python index i in range
At(seq, i) == seq[RangeIndex(Len(seq), i) + 1]
\* seq after seq[i] = v for a Python index i in range
SetAt(seq, i, v) == [seq EXCEPT ![RangeIndex(Len(seq), i) + 1] = v]

\* The two segments hold fewer than CHUNKSIZE keys: the second is popped
\* and its keys go into the first.
BigDictMerge(d, last) ==
    Let(At(d.lens, PairB(last)), LAMBDA lb :
    Let([d EXCEPT !.len = d.len + lb,
                  !.lens = IF last THEN d.lens ELSE SetAt(d.lens, 0, d.lens[1] + lb)],
        LAMBDA t :
    Then(BigDict_cache_chunk(t, PairA(last)), LAMBDA u :
    Let(FileAt(u, PairA(last)), LAMBDA filename :
    Then(BigDict_pop_chunk(u, PairB(last)), LAMBDA v :
        Mutate(v, filename,
               DictUpdate(Chunk(v, filename), BigDictPopped(u, PairB(last)))))))))

\* The two segments hold more than 4 * CHUNKSIZE keys: they and a new
\* segment after them take a third of the keys each.
BigDictSplit3(d, last) ==
    Then(BigDict_cache_chunk(d, PairA(last)), LAMBDA t :
    Then(BigDict_cache_chunk(t, PairB(last)), LAMBDA u :
    Let(DictUpdate(BigDictChunk(t, PairA(last)), BigDictChunk(u, PairB(last))),
        LAMBDA chunk :
    Let(SortPairs(Pairs(chunk)), LAMBDA keys :
    Let(Len(keys), LAMBDA n :
    Then(BigDictTouch(u, PairA(last), EmptyDict), LAMBDA v1 :
    Then(BigDictTouch(v1, PairA(last), DictOf(chunk, Slice(keys, 0, n \div 3))),
         LAMBDA v2 :
    Then(BigDictTouch(v2, PairB(last), EmptyDict), LAMBDA v3 :
    Then(BigDictTouch(v3, PairB(last),
                      DictOf(chunk, Slice(keys, n \div 3, (2 * n) \div 3))), LAMBDA v4 :
    Then(BigDict_get_filename(v4), LAMBDA v5 :
    Let([v5 EXCEPT !.filenames =
            IF last THEN Append(v5.filenames, v4.meta["counter.txt"])
            ELSE ListInsert(v5.filenames, 2, v4.meta["counter.txt"])], LAMBDA v6 :
    Then(BigDict_free_cache(v6), LAMBDA v7 :
        [CachePut(v7, v4.meta["counter.txt"], DictOf(chunk, SliceFrom(keys, (2 * n) \div 3)))
            EXCEPT !.lens = SetSlice(v7.lens, PairA(last),
                                     IF last THEN Len(v7.lens) ELSE 2,
                                     <<n \div 3, (2 * n) \div 3 - n \div 3,
                                       n - (2 * n) \div 3>>),
                   !.mins = SetSlice(v7.mins, IF last THEN -1 ELSE 1,
                                     IF last THEN Len(v7.mins) ELSE 2,
                                     <<keys[n \div 3 + 1], keys[(2 * n) \div 3 + 1]>>)]
    ))))))))))))

\* The first of the two is the longer: the diff // 2 largest keys of it go
\* to the second.
BigDictShiftRight(d, last) ==
    Let((At(d.lens, PairA(last)) - At(d.lens, PairB(last))) \div 2, LAMBDA half :
    Then(BigDict_cache_chunk(d, PairA(last)), LAMBDA t :
    Let(BigDictChunk(t, PairA(last)), LAMBDA chunk :
    Let(Reverse(SliceFrom(SortPairs(Pairs(chunk)),
                          Max(Cardinality(DOMAIN chunk) - half, 0))), LAMBDA keys :
    Then(BigDict_cache_chunk(t, PairB(last)), LAMBDA u :
    Let(Mutate(Mutate(u, FileAt(u, PairA(last)), DictWithout(chunk, keys)),
               FileAt(u, PairB(last)),
               DictUpdate(BigDictChunk(u, PairB(last)), DictOf(chunk, keys))), LAMBDA v :
        IF keys = <<>> THEN Raise(v, "IndexError")
        ELSE [v EXCEPT !.mins = SetAt(v.mins, PairB(last), keys[Len(keys)]),
                       !.lens = SetAt(SetAt(v.lens, PairA(last),
                                            At(v.lens, PairA(last)) - half),
                                      PairB(last), At(v.lens, PairB(last)) + half)]))))))

\* The second of the two is at least as long: the diff // 2 smallest keys
\* of it go to the first.
BigDictShiftLeft(d, last) ==
    Let((At(d.lens, PairB(last)) - At(d.lens, PairA(last))) \div 2, LAMBDA half :
    Then(BigDict_cache_chunk(d, PairB(last)), LAMBDA t :
    Let(BigDictChunk(t, PairB(last)), LAMBDA chunk :
    Let(Slice(SortPairs(Pairs(chunk)), 0, half + 1), LAMBDA small :
        IF small = <<>> THEN Raise(t, "IndexError")
        ELSE Let(Slice(small, 0, Len(small) - 1), LAMBDA keys :
             Then(BigDict_cache_chunk(
                      [t EXCEPT !.mins = SetAt(t.mins, PairB(last), small[Len(small)])],
                      PairA(last)), LAMBDA u :
             Let(Mutate(Mutate(u, FileAt(u, PairB(last)), DictWithout(chunk, keys)),
                        FileAt(u, PairA(last)),
                        DictUpdate(BigDictChunk(u, PairA(last)), DictOf(chunk, keys))),
                 LAMBDA v :
                 [v EXCEPT !.lens = SetAt(SetAt(v.lens, PairA(last),
                                                At(v.lens, PairA(last)) + half),
                                          PairB(last), At(v.lens, PairB(last)) - half)])))))))

\* _balance(index) for the first segment (last = FALSE) or the last one of
\* a mapping of several segments.
BigDict_balance_end(d, last) ==
    Let(At(d.lens, PairA(last)), LAMBDA la :
    Let(At(d.lens, PairB(last)), LAMBDA lb :
    Let(IF last THEN lb ELSE la, LAMBDA own :
        IF la + lb < DictCHUNKSIZE THEN BigDictMerge(d, last)
        ELSE IF la + lb > 4 * DictCHUNKSIZE THEN BigDictSplit3(d, last)
        ELSE IF /\ DictCHUNKSIZE \div 2 < own /\ own < DictCHUNKSIZE * 2
                /\ (3 * DictCHUNKSIZE) \div 2 < la + lb /\ la + lb < 3 * DictCHUNKSIZE
        THEN d
        ELSE IF la > lb THEN BigDictShiftRight(d, last)
        ELSE BigDictShiftLeft(d, last))))

\* The segments from index on are emptied and filled, one after the other,
\* with the keys keys[cuts[j]:cuts[j + 1]] of chunk, for j from k on.
RECURSIVE BigDictDeal(_, _, _, _, _, _)
BigDictDeal(d, chunk, keys, index, cuts, k) ==
    IF k >= Len(cuts) \/ d.err # OK THEN d
    ELSE BigDictDeal(
             Then(BigDictTouch(d, index, EmptyDict), LAMBDA t :
                 BigDictTouch(t, index, DictOf(chunk, Slice(keys, cuts[k], cuts[k + 1])))),
             chunk, keys, index + 1, cuts, k + 1)

\* Three segments of fewer than 3 * CHUNKSIZE // 2 keys: the third is popped
\* and the keys of all go to the first two.  The last statement reads the
\* name key, which _balance never binds.
BigDictMerge3(d, index) ==
    Then(BigDict_cache_chunk(d, index - 1), LAMBDA t :
    Then(BigDict_cache_chunk(t, index), LAMBDA u :
    Then(BigDict_pop_chunk(u, index + 1), LAMBDA v :
    Let(DictUpdate(DictUpdate(BigDictChunk(t, index - 1), BigDictChunk(u, index)),
                   BigDictPopped(u, index + 1)), LAMBDA chunk :
    Let(SortPairs(Pairs(chunk)), LAMBDA keys :
    Let(Len(keys), LAMBDA n :
    Then(BigDictDeal(v, chunk, keys, index - 1, <<0, n \div 2, n>>, 1), LAMBDA w :
        Raise([w EXCEPT !.lens = SetSlice(w.lens, index - 1, index + 1,
                                          <<n \div 2, (n + 1) \div 2>>)],
              "NameError"))))))))

\* The keys of the three segments around index, gathered and sorted, are
\* dealt out again over parts segments: three, or four with a new segment
\* after them.
BigDictRedeal(d, index, parts) ==
    Then(BigDict_cache_chunk(d, index - 1), LAMBDA t :
    Then(BigDict_cache_chunk(t, index), LAMBDA u :
    Then(BigDict_cache_chunk(u, index + 1), LAMBDA v :
    Let(DictUpdate(DictUpdate(BigDictChunk(t, index - 1), BigDictChunk(u, index)),
                   BigDictChunk(v, index + 1)), LAMBDA chunk :
    Let(SortPairs(Pairs(chunk)), LAMBDA keys :
    Let(Len(keys), LAMBDA n :
        IF parts = 3
        THEN Then(BigDictDeal(v, chunk, keys, index - 1,
                              <<0, n \div 3, (2 * n) \div 3, n>>, 1), LAMBDA w :
                 [w EXCEPT !.lens = SetSlice(w.lens, index - 1, index + 2,
                                             <<n \div 3, (2 * n) \div 3 - n \div 3,
                                               n - (2 * n) \div 3>>),
                           !.mins = SetSlice(w.mins, index, index + 2,
                                             <<keys[n \div 3 + 1],
                                               keys[(2 * n) \div 3 + 1]>>)])
        ELSE Then(BigDictDeal(v, chunk, keys, index - 1,
                              <<0, n \div 4, n \div 2, (3 * n) \div 4>>, 1), LAMBDA w :
             Then(BigDict_get_filename(w), LAMBDA x :
             Then(BigDict_free_cache(
                      [x EXCEPT !.filenames =
                          ListInsert(x.filenames, index + 2, w.meta["counter.txt"])]),
                  LAMBDA y :
                 [CachePut(y, w.meta["counter.txt"],
                           DictOf(chunk, SliceFrom(keys, (3 * n) \div 4)))
                     EXCEPT !.lens = SetSlice(y.lens, index - 1, index + 2,
                                              <<n \div 4, n \div 2 - n \div 4,
                                                (3 * n) \div 4 - n \div 2,
                                                n - (3 * n) \div 4>>),
                            !.mins = SetSlice(y.mins, index, index + 2,
                                              <<keys[n \div 4 + 1], keys[n \div 2 + 1],
                                                keys[(3 * n) \div 4 + 1]>>)])))))))))

\* _balance(index) for a segment with a neighbour on either side.
BigDict_balance_middle(d, index) ==
    Let(d.lens[index] + d.lens[index + 1] + d.lens[index + 2], LAMBDA sum :
        IF sum < (3 * DictCHUNKSIZE) \div 2 THEN BigDictMerge3(d, index)
        ELSE IF sum > 6 * DictCHUNKSIZE THEN BigDictRedeal(d, index, 4)
        ELSE IF ~(\A k \in index..(index + 2) :
                      /\ DictCHUNKSIZE \div 2 < (2 * d.lens[k]) \div 3
                      /\ (2 * d.lens[k]) \div 3 < DictCHUNKSIZE)
        THEN BigDictRedeal(d, index, 3)
        ELSE d)

BigDict_balance(d, index) ==
    IF Len(d.lens) = 0 THEN d
    ELSE IF Len(d.lens) = 1
    THEN (IF d.lens[1] > 2 * DictCHUNKSIZE THEN BigDict_balance_single(d) ELSE d)
    ELSE Let(RangeIndex(Len(d.lens), index), LAMBDA i :
             IF i < 0 THEN Raise(d, "IndexError")
             ELSE IF i = 0 THEN BigDict_balance_end(d, FALSE)
             ELSE IF i + 1 = Len(d.lens) THEN BigDict_balance_end(d, TRUE)
             ELSE BigDict_balance_middle(d, i))

\* del self[key]
BigDict__delitem__(d, key) ==
    Let(bisect(d.mins, <<Hash(key), key>>), LAMBDA at :
        IF at = 0 THEN Raise(d, "KeyError")
        ELSE Then(BigDict_cache_chunk(d, at - 1), LAMBDA t :
             Let(BigDictChunk(t, at - 1), LAMBDA chunk :
                 IF key \notin DOMAIN chunk THEN Raise(t, "KeyError")
                 ELSE Let([Mutate(t, FileAt(t, at - 1), DictWithout(chunk, <<<<Hash(key), key>>>>))
                              EXCEPT !.lens[at] = t.lens[at] - 1, !.len = t.len - 1],
                          LAMBDA u :
                      IF key # u.mins[at][2] THEN BigDict_balance(u, at - 1)
                      ELSE Then(BigDict_cache_chunk(u, at - 1), LAMBDA v :
                               IF DOMAIN BigDictChunk(v, at - 1) = {}
                               THEN Raise(v, "ValueError")
                               ELSE BigDict_balance(
                                        [v EXCEPT !.mins[at] =
                                            SortPairs(Pairs(BigDictChunk(v, at - 1)))[1]],
                                        at - 1))))))

(***************************************************************************)
(* The state machine of a BigDict under set, delete and get.  given is the *)
(* mapping the calls describe: the value last set for every key set and    *)
(* not deleted since.                                                      *)
(***************************************************************************)
\* Most calls a behaviour makes after the initial state.
MaxMapOps == 2
\* The keys of the calls.
MapKeys == 0..(6 * DictCHUNKSIZE + 2)
\* The value a set call of this step stores.
MapValue == steps + 1

\* given after del given[key]
Forget(ref, key) == [k \in DOMAIN ref \ {key} |-> ref[k]]

\* The calls that build the mappings of the initial states: set(k, 0) for k
\* from lo to hi, or delete(k) for k from lo to hi.
SetRun(lo, hi) == [op |-> "set", lo |-> lo, hi |-> hi]
DelRun(lo, hi) == [op |-> "delete", lo |-> lo, hi |-> hi]

\* The mapping after the calls of run from key k on, and what they gave.
RECURSIVE RunKeys(_, _, _)
RunKeys(p, run, k) ==
    IF k > run.hi \/ p[1].err # OK THEN p
    ELSE RunKeys(IF run.op = "set"
                 THEN <<[BigDict__setitem__(p[1], k, 0) EXCEPT !.err = OK],
                        DictPut(p[2], k, 0)>>
                 ELSE <<[BigDict__delitem__(p[1], k) EXCEPT !.err = OK],
                        Forget(p[2], k)>>,
                 run, k + 1)

RECURSIVE RunPlan(_, _, _)
RunPlan(p, plan, i) ==
    IF i > Len(plan) \/ p[1].err # OK THEN p
    ELSE RunPlan(RunKeys(p, plan[i], plan[i].lo), plan, i + 1)

\* How the mappings of the initial states are built:
\*   empty     no call;
\*   grown     one segment of 2 * CHUNKSIZE + 2 keys, which a delete splits;
\*   split     the two segments that split leaves;
\*   wide      two segments of more than 4 * CHUNKSIZE keys;
\*   three     the three segments a split of those in three leaves;
\*   heavy     three segments of more than 6 * CHUNKSIZE keys;
\*   trimmed   three segments of unequal lengths;
\*   thin      three segments of two keys each;
\*   lopsided  a segment of five keys before an empty one.
Plans ==
    LET C == DictCHUNKSIZE
        grown == <<SetRun(0, 2 * C + 1)>>
        split == grown \o <<DelRun(2 * C + 1, 2 * C + 1)>>
        wide == split \o <<SetRun(2 * C + 2, 4 * C + 2)>>
        three == wide \o <<DelRun(4 * C + 2, 4 * C + 2)>>
    IN  { <<>>, grown, split, wide, three,
          three \o <<SetRun(4 * C + 2, 6 * C + 2)>>,
          three \o <<DelRun(6, 8), DelRun(14, 16)>>,
          three \o <<DelRun(0, 6), DelRun(10, 10), DelRun(7, 8), DelRun(13, 13)>>,
          <<SetRun(9, 9), DelRun(9, 9), SetRun(10, 10), SetRun(0, 0), SetRun(7, 7),
            SetRun(4, 4), SetRun(8, 8)>> }

MapCall(t, op, args, ret, ref) ==
    /\ steps < MaxMapOps
    /\ obj' = t
    /\ result' = [err |-> t.err, op |-> op, args |-> args, ret |-> ret]
    /\ steps' = steps + 1
    /\ given' = ref
    /\ UNCHANGED <<_cache, _fenwick, _filenames, _len, _lens, _path_count,
                   _path_index, _paths, disk, hw>>

InitMap ==
    /\ result = [err |-> OK, op |-> "init", args |-> <<>>, ret |-> <<>>]
    /\ steps = 0
    /\ Holds(Built(0))
    /\ \E plan \in Plans :
           Let(RunPlan(<<BigDict__init__(EmptyDir), EmptyDict>>, plan, 1), LAMBDA p :
               obj = p[1] /\ given = p[2])

MapSet ==
    \E k \in MapKeys :
        MapCall(BigDict__setitem__(TheDict, k, MapValue), "set", <<k, MapValue>>, <<>>,
                DictPut(given, k, MapValue))

MapDelete ==
    \E k \in MapKeys :
        MapCall(BigDict__delitem__(TheDict, k), "delete", <<k>>, <<>>, Forget(given, k))

MapGet ==
    \E k \in MapKeys :
        Let(BigDict__getitem__(TheDict, k), LAMBDA t :
            MapCall(t, "get", <<k>>,
                    IF t.err = OK THEN <<BigDictGot(t, TheDict, k)>> ELSE <<>>, given))

NextMap == MapSet \/ MapDelete \/ MapGet

SpecMap == InitMap /\ [][NextMap]_vars

(***************************************************************************)
(* BigDict: what the states and the calls are checked against.             *)
(***************************************************************************)
\* The keys and values segment i (from 1) of the mapping d holds: the
\* cached dict, or the file.
BigDictHeld(d, i) ==
    IF InCache(d, d.filenames[i]) THEN Chunk(d, d.filenames[i])
    ELSE IF d.filenames[i] \in DOMAIN d.seg THEN d.seg[d.filenames[i]]
    ELSE EmptyDict

\* The mapping after the step.
DictAfter == [obj' EXCEPT !.err = OK]

\* key in self, for a mapping without a __contains__ of its own
BigDict__contains__(d, key) == DictOutcome(d, key) # <<"KeyError">>

\* C21: after any sequence of set and delete calls len() is the number of
\* keys set and not deleted since, get(k) returns the value last set for
\* each of them, contains(k) is true for them and for no other key, and no
\* key is held by two segments.
C21_MapSemantics ==
    /\ TheDict.len = Cardinality(DOMAIN given)
    /\ \A k \in MapKeys :
           /\ DictOutcome(TheDict, k)
                  = (IF k \in DOMAIN given THEN <<OK, given[k]>> ELSE <<"KeyError">>)
           /\ BigDict__contains__(TheDict, k) <=> k \in DOMAIN given
    /\ \A i, j \in 1..Len(obj.filenames) :
           i < j => DOMAIN BigDictHeld(obj, i) \cap DOMAIN BigDictHeld(obj, j) = {}

\* C22: delete(k) of a key the mapping holds returns without raising,
\* removes k, lowers len() and the recorded lengths in all by one and leaves
\* the value of every other key as it was; when k was the minimum of its
\* segment and the segments are the same files afterwards, the segment's
\* min is the smallest (hash, key) pair it still holds.  This holds also
\* for the only key of a segment.
C22_DeleteRemovesKey ==
    [][(result'.op = "delete" /\ DictOutcome(TheDict, result'.args[1])[1] = OK) =>
          Let(result'.args[1], LAMBDA key :
          Let(bisect(obj.mins, <<Hash(key), key>>), LAMBDA at :
              /\ result'.err = OK
              /\ obj'.len = obj.len - 1
              /\ Sum(obj'.lens) = Sum(obj.lens) - 1
              /\ DictOutcome(DictAfter, key) = <<"KeyError">>
              /\ \A k \in MapKeys \ {key} :
                     DictOutcome(DictAfter, k) = DictOutcome(TheDict, k)
              /\ (obj'.filenames = obj.filenames /\ obj.mins[at][2] = key
                      /\ DOMAIN BigDictHeld(obj', at) # {}) =>
                     obj'.mins[at] = SortPairs(Pairs(BigDictHeld(obj', at)))[1]))]_vars

\* C23: in every state the (hash, key) pairs of an earlier segment are all
\* smaller than the pairs of a later one, and the min recorded for a
\* segment that holds keys is the smallest pair of the segment.
C23_SegmentsOrderedByMins ==
    /\ Len(obj.mins) = Len(obj.filenames)
    /\ \A i, j \in 1..Len(obj.filenames) :
           i < j => \A a \in Pairs(BigDictHeld(obj, i)), b \in Pairs(BigDictHeld(obj, j)) :
                        PairLess(a, b)
    /\ \A i \in 1..Len(obj.filenames) :
           DOMAIN BigDictHeld(obj, i) # {} =>
               obj.mins[i] = SortPairs(Pairs(BigDictHeld(obj, i)))[1]

\* C24: in every state the recorded length of each segment is the number
\* of keys the segment holds.
C24_LensCountKeys ==
    /\ Len(obj.lens) = Len(obj.filenames)
    /\ \A i \in 1..Len(obj.filenames) :
           obj.lens[i] = Cardinality(DOMAIN BigDictHeld(obj, i))

\* C25: a set call that stores a new key balances the segment before it
\* returns: in a mapping built by set calls alone no segment holds more
\* than 2 * CHUNKSIZE keys afterwards.
C25_SetBalances ==
    [][(result'.op = "set" /\ result'.err = OK /\ obj'.len > obj.len
            /\ obj.len = Cardinality(DOMAIN given) /\ Len(obj.filenames) <= 1) =>
          \A i \in 1..Len(obj'.filenames) :
              Cardinality(DOMAIN BigDictHeld(obj', i)) <= 2 * DictCHUNKSIZE]_vars

(***************************************************************************)
(* SortedList (sorted/_src/list.py): the sorted elements in segments, the  *)
(* first element of each segment in _mins, and a Fenwick tree over the     *)
(* segment lengths that is built when an index is looked up.               *)
(***************************************************************************)
\* CHUNKSIZE of list.py, scaled down: a segment of more than
\* 2 * SortedCHUNKSIZE + 1 elements is split before an insertion, and a
\* segment that a removal leaves with SortedCHUNKSIZE \div 2 elements or
\* fewer is merged with a neighbour.
SortedCHUNKSIZE == 2
\* The step the descent of _fenwick_index starts from.
FENWICK_STEP == 2048

\* SortedList()
SortedList__init__ ==
    [class |-> "SortedList", data |-> <<>>, fenwick |-> None, len |-> 0,
     mins |-> <<>>, err |-> OK]

\* bisect.bisect(a, x, lo, hi) on elements
RECURSIVE bisect_right(_, _, _, _)
bisect_right(a, x, lo, hi) ==
    IF lo >= hi THEN lo
    ELSE LET mid == (lo + hi) \div 2 IN
         IF x < a[mid + 1] THEN bisect_right(a, x, lo, mid)
         ELSE bisect_right(a, x, mid + 1, hi)

\* bisect.insort(a, x): the list left
insort(a, x) == ListInsert(a, bisect_right(a, x, 0, Len(a)), x)

\* The loop of _fenwick_index that fills a new tree, from index i on.
RECURSIVE SortedFenwickFill(_, _)
SortedFenwickFill(fenwick, i) ==
    IF i >= Len(fenwick) THEN fenwick
    ELSE LET j == i + LowBit(i) IN
         SortedFenwickFill(IF j < Len(fenwick)
                           THEN [fenwick EXCEPT ![j + 1] = @ + fenwick[i + 1]]
                           ELSE fenwick, i + 1)

\* self._fenwick after the first half of _fenwick_index
SortedFenwickBuilt(s) ==
    IF s.fenwick.present THEN s.fenwick.f
    ELSE SortedFenwickFill(<<0>> \o [k \in 1..Len(s.data) |-> Len(s.data[k])], 1)

\* j after "while j < len_: j *= 2"
RECURSIVE SortedFenwickStep(_, _)
SortedFenwickStep(j, len_) == IF j < len_ THEN SortedFenwickStep(2 * j, len_) ELSE j

\* The descent of _fenwick_index: the pair (i, index) it returns.
RECURSIVE SortedFenwickDescend(_, _, _, _)
SortedFenwickDescend(fenwick, i, j, index) ==
    IF j = 0 THEN <<i, index>>
    ELSE IF i + j < Len(fenwick) /\ fenwick[i + j + 1] <= index
         THEN SortedFenwickDescend(fenwick, i + j, j \div 2, index - fenwick[i + j + 1])
         ELSE SortedFenwickDescend(fenwick, i, j \div 2, index)

\* self._fenwick_index(index) on a list whose tree is built
SortedList_fenwick_index(s, index) ==
    SortedFenwickDescend(s.fenwick.f, 0,
                         SortedFenwickStep(FENWICK_STEP, Len(s.fenwick.f)), index)

\* Both loops of _fenwick_update add value at index and then at each
\* index + (index & -index); for a power of two that is 2 * index.
RECURSIVE SortedFenwickAdd(_, _, _)
SortedFenwickAdd(fenwick, index, value) ==
    IF index >= Len(fenwick) THEN fenwick
    ELSE SortedFenwickAdd([fenwick EXCEPT ![index + 1] = @ + value],
                          index + LowBit(index), value)

\* self._fenwick_update(index, value)
SortedList_fenwick_update(s, index, value) ==
    IF ~s.fenwick.present THEN s
    ELSE IF RangeIndex(Len(s.data), index) = -1 THEN Raise(s, "IndexError")
    ELSE [s EXCEPT !.fenwick =
              Some(SortedFenwickAdd(@.f, RangeIndex(Len(s.data), index) + 1, value))]

\* del seq[-1]
DelLast(seq) == SubSeq(seq, 1, Len(seq) - 1)

\* del self._fenwick[-1]
SortedFenwickDelLast(s) ==
    IF ~s.fenwick.present THEN Raise(s, "TypeError")
    ELSE IF s.fenwick.f = <<>> THEN Raise(s, "IndexError")
    ELSE [s EXCEPT !.fenwick = Some(DelLast(@.f))]

\* del mins[i] for i >= 0
SortedDelMin(s, i) ==
    IF i >= Len(s.mins) THEN Raise(s, "IndexError")
    ELSE [s EXCEPT !.mins = ListRemove(@, i)]

\* data[i - 1].extend(data.pop(i)) for 0 < i < len(data)
SortedMerge(s, i) ==
    [s EXCEPT !.data = SubSeq(@, 1, i - 1) \o <<@[i] \o @[i + 1]>>
                           \o SubSeq(@, i + 2, Len(@))]

\* The merge of the last segment into the one before it, in __delitem__.
SortedDelMergeLast(s) ==
    Then(SortedList_fenwick_update(s, -2, Len(s.data[Len(s.data)])), LAMBDA t :
    Then(SortedFenwickDelLast(SortedMerge(t, Len(t.data) - 1)), LAMBDA u :
        IF u.mins = <<>> THEN Raise(u, "IndexError")
        ELSE [u EXCEPT !.mins = DelLast(@)]))

\* __delitem__ after "self._len -= 1": segment i has lost its element j.
SortedDelBalance(s, i, j) ==
    IF Len(s.data[i + 1]) = 0 THEN
        Then(SortedDelMin([s EXCEPT !.data = ListRemove(@, i)], i), LAMBDA t :
            IF i = Len(t.data) THEN SortedFenwickDelLast(t)
            ELSE [t EXCEPT !.fenwick = None])
    ELSE IF Len(s.data) = 1 \/ Len(s.data[i + 1]) > SortedCHUNKSIZE \div 2 THEN
        IF j # 0 THEN s
        ELSE IF i >= Len(s.mins) THEN Raise(s, "IndexError")
        ELSE [s EXCEPT !.mins[i + 1] = s.data[i + 1][1]]
    ELSE IF i + 1 = Len(s.data) THEN SortedDelMergeLast(s)
    ELSE IF i > 0 /\ Len(s.data[i]) < Len(s.data[i + 2]) THEN
        SortedDelMin([SortedMerge(s, i) EXCEPT !.fenwick = None], i)
    ELSE IF i + 2 = Len(s.data) THEN SortedDelMergeLast(s)
    ELSE [SortedMerge(s, i + 1) EXCEPT
              !.fenwick = None,
              !.mins = SetSlice(@, i, i + 2, <<s.data[i + 1][1]>>)]

\* del self[index] for an integer index
SortedList__delitem__(s, index) ==
    IF RangeIndex(s.len, index) = -1 THEN Raise(s, "IndexError")
    ELSE Let([s EXCEPT !.fenwick = Some(SortedFenwickBuilt(s))], LAMBDA t :
         Let(SortedList_fenwick_index(t, RangeIndex(s.len, index)), LAMBDA p :
             IF p[1] >= Len(t.data) THEN Raise(t, "IndexError")
             ELSE IF p[2] >= Len(t.data[p[1] + 1]) THEN Raise(t, "IndexError")
             ELSE Then(SortedList_fenwick_update(
                           [t EXCEPT !.data[p[1] + 1] = ListRemove(@, p[2])], p[1], -1),
                       LAMBDA u : SortedDelBalance([u EXCEPT !.len = @ - 1], p[1], p[2]))))

\* self[index] for an integer index: the list, whose tree the lookup may
\* have built, and the element (-1 when the call raises).
SortedList__getitem__(s, index) ==
    IF RangeIndex(s.len, index) = -1 THEN <<Raise(s, "IndexError"), -1>>
    ELSE IF s.data = <<>> THEN <<Raise(s, "IndexError"), -1>>
    ELSE Let(RangeIndex(s.len, index), LAMBDA r :
         IF r < Len(s.data[1]) THEN <<s, s.data[1][r + 1]>>
         ELSE IF r >= s.len - Len(s.data[Len(s.data)])
         THEN Let(RangeIndex(Len(s.data[Len(s.data)]),
                             r - s.len + Len(s.data[Len(s.data)])), LAMBDA k :
                  IF k = -1 THEN <<Raise(s, "IndexError"), -1>>
                  ELSE <<s, s.data[Len(s.data)][k + 1]>>)
         ELSE Let([s EXCEPT !.fenwick = Some(SortedFenwickBuilt(s))], LAMBDA t :
              Let(SortedList_fenwick_index(t, r), LAMBDA p :
                  IF p[1] >= Len(t.data) THEN <<Raise(t, "IndexError"), -1>>
                  ELSE IF p[2] >= Len(t.data[p[1] + 1]) THEN <<Raise(t, "IndexError"), -1>>
                  ELSE <<t, t.data[p[1] + 1][p[2] + 1]>>)))

\* len(chunk) // 2 > CHUNKSIZE for segment c: the insertion splits it first.
SortedSplits(s, c) == Len(s.data[c + 1]) \div 2 > SortedCHUNKSIZE

\* data.insert(c + 1, chunk[len2:]); mins.insert(m, chunk[len2]);
\* del chunk[len2:], for chunk = data[c] and len2 = len(chunk) // 2.
SortedSplit(s, c, m) ==
    Let(s.data[c + 1], LAMBDA chunk :
    Let(Len(chunk) \div 2, LAMBDA len2 :
        [s EXCEPT !.data = SubSeq(@, 1, c)
                               \o <<SubSeq(chunk, 1, len2), SubSeq(chunk, len2 + 1, Len(chunk))>>
                               \o SubSeq(@, c + 2, Len(@)),
                  !.mins = ListInsert(@, m, chunk[len2 + 1])]))

\* "while j > 1: j //= 2; fenwick[i] += fenwick[i - j]"
RECURSIVE SortedFenwickFold(_, _, _)
SortedFenwickFold(fenwick, i, j) ==
    IF j <= 1 THEN fenwick
    ELSE SortedFenwickFold([fenwick EXCEPT ![i + 1] = @ + fenwick[i - j \div 2 + 1]],
                           i, j \div 2)

\* What append and add do to the tree after they split the last segment.
SortedFenwickGrown(s) ==
    IF ~s.fenwick.present THEN s
    ELSE Let(Append(s.fenwick.f, Len(s.data[Len(s.data)])), LAMBDA f :
         Let([f EXCEPT ![Len(f) - 1] = @ - f[Len(f)]], LAMBDA g :
             IF Len(s.data) >= Len(g) THEN Raise([s EXCEPT !.fenwick = Some(g)], "IndexError")
             ELSE [s EXCEPT !.fenwick =
                       Some(SortedFenwickFold(g, Len(s.data), LowBit(Len(s.data))))]))

\* "if fenwick is not None: fenwick[-k] += 1"
SortedFenwickBump(s, k) ==
    IF ~s.fenwick.present THEN s
    ELSE IF Len(s.fenwick.f) < k THEN Raise(s, "IndexError")
    ELSE [s EXCEPT !.fenwick = Some([@.f EXCEPT ![Len(@.f) - k + 1] = @ + 1])]

\* The list an insertion into its only or first segment starts from: the
\* segment split, or counted in the tree.
SortedFrontSplit(s) ==
    IF SortedSplits(s, 0) THEN [SortedSplit(s, 0, 1) EXCEPT !.fenwick = None]
    ELSE SortedList_fenwick_update(s, 0, 1)

\* The branch of append and add for an element below every minimum.
SortedPushFront(s, element) ==
    Then(SortedFrontSplit(s), LAMBDA t :
        [t EXCEPT !.data[1] = <<element>> \o @, !.mins[1] = element, !.len = @ + 1])

\* The list an insertion at or above the last minimum starts from.
SortedLastSplit(s) ==
    IF SortedSplits(s, Len(s.data) - 1)
    THEN SortedFenwickGrown(SortedSplit(s, Len(s.data) - 1, Len(s.mins)))
    ELSE s

\* "fenwick[-2] += 1; if len(data) == 2: fenwick[-1] += 1"
SortedFenwickBumpBefore(s) ==
    Then(SortedFenwickBump(s, 2), LAMBDA t :
        IF Len(t.data) = 2 THEN SortedFenwickBump(t, 1) ELSE t)

\* The branch of append for an element at or above the last minimum; chunk is
\* the segment that was last when the call began, at index c now.
SortedAppendLast(s, c, element) ==
    IF s.mins[Len(s.mins)] < element THEN
        Then(SortedFenwickBump([s EXCEPT !.data[Len(s.data)] = insort(@, element)], 1),
             LAMBDA t : [t EXCEPT !.len = @ + 1])
    ELSE Let([s EXCEPT !.data[c + 1] = insort(@, element)], LAMBDA t :
         IF Len(t.mins) < 2 THEN Raise(t, "IndexError")
         ELSE Then(SortedFenwickBumpBefore(
                       [t EXCEPT !.mins[Len(t.mins) - 1] = t.data[c + 1][1]]),
                   LAMBDA u : [u EXCEPT !.len = @ + 1]))

\* The branch of append for an element between the first and last minimum,
\* which goes into segment i - 1 or, after a split, into one of its halves.
SortedAppendInner(s, i, element) ==
    IF i > Len(s.data) THEN Raise(s, "IndexError")
    ELSE IF SortedSplits(s, i - 1) THEN
        Let([SortedSplit(s, i - 1, i) EXCEPT !.fenwick = None], LAMBDA t :
            IF t.data[i + 1][1] < element
            THEN [t EXCEPT !.data[i + 1] = insort(@, element), !.len = @ + 1]
            ELSE [t EXCEPT !.data[i] = insort(@, element),
                           !.mins[i] = insort(t.data[i], element)[1],
                           !.len = @ + 1])
    ELSE Then(SortedList_fenwick_update(
                  [s EXCEPT !.data[i] = insort(@, element),
                            !.mins[i] = insort(s.data[i], element)[1]], i - 1, 1),
              LAMBDA t : [t EXCEPT !.len = @ + 1])

\* self.append(element)
SortedList_append(s, element) ==
    IF s.len = 0 THEN
        [s EXCEPT !.data = Append(@, <<element>>), !.fenwick = None,
                  !.mins = Append(@, element), !.len = @ + 1]
    ELSE IF s.mins = <<>> \/ s.data = <<>> THEN Raise(s, "IndexError")
    ELSE IF element < s.mins[1] THEN SortedPushFront(s, element)
    ELSE IF element >= s.mins[Len(s.mins)] THEN
        Then(SortedLastSplit(s), LAMBDA t :
            SortedAppendLast(t, IF SortedSplits(s, Len(s.data) - 1)
                                THEN Len(t.data) - 2 ELSE Len(t.data) - 1, element))
    ELSE SortedAppendInner(s, bisect_right(s.mins, element, 0, Len(s.mins) - 1), element)

\* What "if j > 0 and not (element is not chunk[k] != element): return" of
\* add does for j = bisect(chunk, element): "raise" when chunk[k] is past
\* the end, "return" when chunk[k] is the element, "insert" otherwise.
SortedAddProbe(chunk, element, k) ==
    IF bisect_right(chunk, element, 0, Len(chunk)) = 0 THEN "insert"
    ELSE IF k >= Len(chunk) THEN "raise"
    ELSE IF chunk[k + 1] = element THEN "return"
    ELSE "insert"

\* The branch of add for an element at or above the last minimum, where the
\* element before the insertion point is compared.
SortedAddLast(s, c, element) ==
    IF s.mins[Len(s.mins)] < element THEN
        Let(s.data[Len(s.data)], LAMBDA last :
            IF SortedAddProbe(last, element, bisect_right(last, element, 0, Len(last)) - 1)
                   = "return"
            THEN s
            ELSE Then(SortedFenwickBump(
                          [s EXCEPT !.data[Len(s.data)] = insort(@, element)], 1),
                      LAMBDA t : [t EXCEPT !.len = @ + 1]))
    ELSE Let(s.data[c + 1], LAMBDA chunk :
         Let(bisect_right(chunk, element, 0, Len(chunk)), LAMBDA j :
             IF SortedAddProbe(chunk, element, j - 1) = "return" THEN s
             ELSE Let([s EXCEPT !.data[c + 1] = ListInsert(@, j, element)], LAMBDA t :
                  IF j = 0 /\ Len(t.mins) < 2 THEN Raise(t, "IndexError")
                  ELSE Then(SortedFenwickBumpBefore(
                                IF j = 0 THEN [t EXCEPT !.mins[Len(t.mins) - 1] = element]
                                ELSE t),
                            LAMBDA u : [u EXCEPT !.len = @ + 1]))))

\* add's insertion into segment c of a list between two minimums, where the
\* element at the insertion point is compared; m is the index in mins of the
\* minimum a new first element replaces.
SortedAddInto(s, c, m, element) ==
    Let(s.data[c + 1], LAMBDA chunk :
    Let(bisect_right(chunk, element, 0, Len(chunk)), LAMBDA j :
        IF SortedAddProbe(chunk, element, j) = "raise" THEN Raise(s, "IndexError")
        ELSE IF SortedAddProbe(chunk, element, j) = "return" THEN Raise(s, "return")
        ELSE [s EXCEPT !.data[c + 1] = ListInsert(@, j, element),
                       !.mins = IF j = 0 THEN [@ EXCEPT ![m + 1] = element] ELSE @]))

\* A "return" inside add ends the call without an exception.
SortedReturned(s) == IF s.err = "return" THEN [s EXCEPT !.err = OK] ELSE s

\* The branch of add for an element between the first and last minimum.
SortedAddInner(s, i, element) ==
    IF i > Len(s.data) THEN Raise(s, "IndexError")
    ELSE IF SortedSplits(s, i - 1) THEN
        Let([SortedSplit(s, i - 1, i) EXCEPT !.fenwick = None], LAMBDA t :
            SortedReturned(
                Then(IF t.data[i + 1][1] < element
                     THEN SortedAddInto(t, i, i, element)
                     ELSE SortedAddInto(t, i - 1, i - 1, element),
                     LAMBDA u : [u EXCEPT !.len = @ + 1])))
    ELSE SortedReturned(
             Then(SortedAddInto(s, i - 1, i - 1, element), LAMBDA t :
             Then(SortedList_fenwick_update(t, i - 1, 1), LAMBDA u :
                 [u EXCEPT !.len = @ + 1])))

\* self.add(element)
SortedList_add(s, element) ==
    IF s.len = 0 THEN
        [s EXCEPT !.data = Append(@, <<element>>), !.fenwick = None,
                  !.mins = Append(@, element), !.len = @ + 1]
    ELSE IF s.mins = <<>> \/ s.data = <<>> THEN Raise(s, "IndexError")
    ELSE IF element < s.mins[1] THEN SortedPushFront(s, element)
    ELSE IF element >= s.mins[Len(s.mins)] THEN
        Then(SortedLastSplit(s), LAMBDA t :
            SortedAddLast(t, IF SortedSplits(s, Len(s.data) - 1)
                             THEN Len(t.data) - 2 ELSE Len(t.data) - 1, element))
    ELSE SortedAddInner(s, bisect_right(s.mins, element, 0, Len(s.mins) - 1), element)

\* The segment discard looks in; the call has checked that the element is
\* not outside mins[0] .. data[-1][-1].
SortedDiscardSegment(s, element) ==
    IF element < s.data[1][Len(s.data[1])] THEN 0
    ELSE IF element >= s.mins[Len(s.mins)] THEN Len(s.mins) - 1
    ELSE bisect_right(s.mins, element, 1, Len(s.mins) - 1) - 1

\* discard where the segment keeps its place: "if j == 0: mins[i] = chunk[0]"
\* and the update of the tree.
SortedDiscardKeep(s, i, j) ==
    IF j # 0 THEN SortedList_fenwick_update(s, i, -1)
    ELSE IF s.data[i + 1] = <<>> \/ i >= Len(s.mins) THEN Raise(s, "IndexError")
    ELSE SortedList_fenwick_update([s EXCEPT !.mins[i + 1] = s.data[i + 1][1]], i, -1)

\* discard where segment i is merged into the one before it.
SortedDiscardMergeBack(s, i) ==
    Then(IF s.fenwick.present /\ i + 1 = Len(s.data)
         THEN Then(SortedList_fenwick_update(s, i - 1, Len(s.data[i + 1])),
                   SortedFenwickDelLast)
         ELSE [s EXCEPT !.fenwick = None],
         LAMBDA t : SortedDelMin(SortedMerge(t, i), i))

\* discard where the segment after segment i is merged into it.
SortedDiscardMergeNext(s, i, j) ==
    Then(IF s.fenwick.present /\ i + 2 = Len(s.data)
         THEN Then(SortedList_fenwick_update(s, i, Len(s.data[i + 2]) - 1),
                   SortedFenwickDelLast)
         ELSE [s EXCEPT !.fenwick = None],
         LAMBDA t :
             Let(IF j = 0
                 THEN [t EXCEPT !.mins = SetSlice(@, i, i + 2, Slice(t.data[i + 1], 0, 1))]
                 ELSE t,
                 LAMBDA u : IF i + 1 >= Len(u.data) THEN Raise(u, "IndexError")
                            ELSE SortedMerge(u, i + 1)))

\* discard after "del chunk[j]; self._len -= 1"
SortedDiscardBalance(s, i, j) ==
    IF Len(s.data) = 1 \/ Len(s.data[i + 1]) > SortedCHUNKSIZE \div 2
    THEN SortedDiscardKeep(s, i, j)
    ELSE IF i > 0 /\ (i + 1 = Len(s.data) \/ Len(s.data[i]) < Len(s.data[i + 2]))
    THEN SortedDiscardMergeBack(s, i)
    ELSE SortedDiscardMergeNext(s, i, j)

\* self.clear()
SortedList_clear(s) ==
    [s EXCEPT !.data = <<>>, !.fenwick = None, !.len = 0, !.mins = <<>>]

\* self.discard(element)
SortedList_discard(s, element) ==
    IF s.len = 0 THEN s
    ELSE IF s.len = 1 THEN
        IF s.mins = <<>> THEN Raise(s, "IndexError")
        ELSE IF s.mins[1] = element THEN SortedList_clear(s) ELSE s
    ELSE IF s.mins = <<>> THEN Raise(s, "IndexError")
    ELSE IF ~(s.mins[1] <= element) THEN s
    ELSE IF s.data = <<>> \/ s.data[Len(s.data)] = <<>> THEN Raise(s, "IndexError")
    ELSE IF ~(element <= s.data[Len(s.data)][Len(s.data[Len(s.data)])]) THEN s
    ELSE IF s.data[1] = <<>> THEN Raise(s, "IndexError")
    ELSE Let(SortedDiscardSegment(s, element), LAMBDA i :
         IF i >= Len(s.data) THEN Raise(s, "IndexError")
         ELSE Let(bisect_right(s.data[i + 1], element, 0, Len(s.data[i + 1])) - 1, LAMBDA j :
              IF j < 0 THEN s
              ELSE IF s.data[i + 1][j + 1] # element THEN s
              ELSE SortedDiscardBalance(
                       [s EXCEPT !.data[i + 1] = ListRemove(@, j), !.len = @ - 1], i, j)))

\* bisect_left(self, value, lo, hi) and bisect_right(self, value, lo, hi) of
\* SortedSequence.index, which read the list through self[mid]: the list,
\* whose tree a read may have built, and the index found.
RECURSIVE SortedBisect(_, _, _, _, _)
SortedBisect(s, value, lo, hi, mode) ==
    IF lo >= hi THEN <<s, lo>>
    ELSE Let(SortedList__getitem__(s, (lo + hi) \div 2), LAMBDA g :
         IF g[1].err # OK THEN <<g[1], lo>>
         ELSE IF mode = "right"
         THEN IF value < g[2] THEN SortedBisect(g[1], value, lo, (lo + hi) \div 2, mode)
              ELSE SortedBisect(g[1], value, (lo + hi) \div 2 + 1, hi, mode)
         ELSE IF g[2] < value THEN SortedBisect(g[1], value, (lo + hi) \div 2 + 1, hi, mode)
              ELSE SortedBisect(g[1], value, lo, (lo + hi) \div 2, mode))

\* The check of mode "exact" on the index i that bisect_left found.
SortedExact(p, value, stop) ==
    IF p[1].err # OK THEN p
    ELSE IF ~(0 <= p[2] /\ p[2] < stop) THEN <<Raise(p[1], "ValueError"), p[2]>>
    ELSE Let(SortedList__getitem__(p[1], p[2]), LAMBDA g :
         IF g[1].err # OK THEN <<g[1], p[2]>>
         ELSE IF g[2] # value THEN <<Raise(g[1], "ValueError"), p[2]>>
         ELSE <<g[1], p[2]>>)

\* self.index(value, mode=mode), with start = 0 and stop = len(self): the
\* list and the index returned.
SortedSequence_index(s, value, mode) ==
    IF mode = "exact" THEN SortedExact(SortedBisect(s, value, 0, s.len, "left"), value, s.len)
    ELSE SortedBisect(s, value, 0, s.len, mode)

(***************************************************************************)
(* The state machine of a SortedList under append, add, discard, deletion  *)
(* by index and index(): obj is the list, result the last call.            *)
(***************************************************************************)
MaxSortedOps == 2
\* The elements of the calls are 0 .. MaxElement.
MaxElement == 26
Elements == 0..MaxElement
Modes == {"left", "right", "exact"}

\* The list the next call is made on.
TheList == [obj EXCEPT !.err = OK]

\* The calls that build the lists of the initial states: op on lo, lo + 2,
\* ... up to hi.
SortedRun(op, lo, hi) == [op |-> op, lo |-> lo, hi |-> hi]

\* One call of a run.
SortedRunCall(s, op, x) ==
    IF op = "append" THEN SortedList_append(s, x)
    ELSE IF op = "discard" THEN SortedList_discard(s, x)
    ELSE IF op = "delete" THEN SortedList__delitem__(s, x)
    ELSE SortedList__getitem__(s, x)[1]

RECURSIVE SortedRunFrom(_, _, _)
SortedRunFrom(s, run, x) ==
    IF x > run.hi \/ s.err # OK THEN s
    ELSE SortedRunFrom(SortedRunCall(s, run.op, x), run, x + 2)

RECURSIVE SortedRunPlan(_, _, _)
SortedRunPlan(s, plan, i) ==
    IF i > Len(plan) \/ s.err # OK THEN s
    ELSE SortedRunPlan(SortedRunFrom(s, plan[i], plan[i].lo), plan, i + 1)

SortedCall(t, op, args, ret) ==
    /\ steps < MaxSortedOps
    /\ obj' = t
    /\ result' = [err |-> t.err, op |-> op, args |-> args, ret |-> ret]
    /\ steps' = steps + 1
    /\ UNCHANGED <<_cache, _fenwick, _filenames, _len, _lens, _path_count,
                   _path_index, _paths, disk, hw, given>>

\* How the lists of the initial states are built:
\*   empty    no call;
\*   short    one segment of three elements;
\*   full     one segment that the next insertion splits;
\*   two      the two segments such a split leaves;
\*   four     four segments, and their tree;
\*   ripe     three segments and their tree, the last to be split;
\*   counted  one segment to be split, and its tree;
\*   thin     four segments of two elements each;
\*   front    two segments, the first to be split;
\*   inner    four segments, the second to be split;
\*   weighed  four segments of two elements each, and their tree.
SortedPlans ==
    LET four == <<SortedRun("append", 0, 24)>>
        thin == four \o <<SortedRun("discard", 2, 2), SortedRun("discard", 8, 8),
                          SortedRun("discard", 14, 14), SortedRun("discard", 20, 22)>>
    IN  { <<>>,
          <<SortedRun("append", 0, 4)>>,
          <<SortedRun("append", 0, 10)>>,
          <<SortedRun("append", 0, 12)>>,
          four \o <<SortedRun("get", 5, 5)>>,
          <<SortedRun("append", 0, 22), SortedRun("get", 4, 4)>>,
          <<SortedRun("append", 0, 10), SortedRun("delete", 0, 0),
            SortedRun("append", 12, 12)>>,
          thin,
          <<SortedRun("append", 10, 22), SortedRun("append", 0, 4)>>,
          four \o <<SortedRun("append", 7, 11)>>,
          thin \o <<SortedRun("get", 3, 3)>> }

InitSorted ==
    /\ result = [err |-> OK, op |-> "init", args |-> <<>>, ret |-> <<>>]
    /\ steps = 0
    /\ given = <<>>
    /\ Holds(Built(0))
    /\ \E plan \in SortedPlans : obj = SortedRunPlan(SortedList__init__, plan, 1)

SortedAppend ==
    \E x \in Elements : SortedCall(SortedList_append(TheList, x), "append", <<x>>, <<>>)

SortedAdd ==
    \E x \in Elements : SortedCall(SortedList_add(TheList, x), "add", <<x>>, <<>>)

SortedDiscard ==
    \E x \in Elements : SortedCall(SortedList_discard(TheList, x), "discard", <<x>>, <<>>)

SortedDelete ==
    \E i \in 0..(obj.len - 1) :
        SortedCall(SortedList__delitem__(TheList, i), "delete", <<i>>, <<>>)

SortedIndex ==
    \E x \in Elements, mode \in Modes :
        Let(SortedSequence_index(TheList, x, mode), LAMBDA p :
            SortedCall(p[1], "index", <<x, mode>>,
                       IF p[1].err = OK THEN <<p[2]>> ELSE <<>>))

NextSorted == SortedAppend \/ SortedAdd \/ SortedDiscard \/ SortedDelete \/ SortedIndex

SpecSorted == InitSorted /\ [][NextSorted]_vars

(***************************************************************************)
(* SortedList: what the states and the calls are checked against.          *)
(***************************************************************************)
\* list(s): __iter__ chains the segments.
RECURSIVE SortedList__iter__(_, _)
SortedList__iter__(s, i) ==
    IF i > Len(s.data) THEN <<>> ELSE s.data[i] \o SortedList__iter__(s, i + 1)

\* The elements in the order iteration yields them.
Listed(s) == SortedList__iter__(s, 1)

\* seq is in non-decreasing order
NonDecreasing(seq) == \A r1, r2 \in 1..Len(seq) : r1 < r2 => seq[r1] <= seq[r2]

\* How many times x occurs in seq.
Count(seq, x) == Cardinality({r \in 1..Len(seq) : seq[r] = x})

\* _mins has one entry per segment, the first element of that segment.
MinsAreFirsts(s) ==
    /\ Len(s.mins) = Len(s.data)
    /\ \A i \in 1..Len(s.data) : s.data[i] # <<>> /\ s.mins[i] = s.data[i][1]

\* C26: after any sequence of append, add, discard and deletion by index,
\* iterating the list yields its elements in non-decreasing order.
C26_IterationIsSorted == NonDecreasing(Listed(obj))

\* C27: at the return of every operation _mins has exactly one entry per
\* segment and _mins[i] is the first element of segment i.
C27_MinsAreFirstElements == result.err = OK => MinsAreFirsts(obj)

\* The contents of t are those of s with n more occurrences of x.
Gained(s, t, x, n) ==
    \A y \in Elements :
        Count(Listed(t), y) = Count(Listed(s), y) + (IF y = x THEN n ELSE 0)

\* C28: append(x) returns without raising for every list and every x, len()
\* grows by exactly one and the contents become the sorted multiset of the
\* old contents and x.
C28_AppendInsertsOne ==
    [][result'.op = "append" =>
           /\ result'.err = OK
           /\ obj'.len = obj.len + 1
           /\ NonDecreasing(Listed(obj'))
           /\ Gained(obj, obj', result'.args[1], 1)]_vars

\* C29: discard(x) never raises; when no element equal to x is present the
\* contents, _mins, the segment lengths and len() are unchanged, and when one
\* is present exactly one occurrence is removed and len() decreases by one.
C29_DiscardRemovesOne ==
    [][result'.op = "discard" =>
           /\ result'.err = OK
           /\ IF Count(Listed(obj), result'.args[1]) = 0
              THEN /\ obj'.data = obj.data
                   /\ obj'.mins = obj.mins
                   /\ obj'.len = obj.len
              ELSE /\ Gained(obj, obj', result'.args[1], -1)
                   /\ obj'.len = obj.len - 1]_vars

\* The smallest rank r of seq with seq[r] >= v, or with seq[r] > v when
\* strict, counted from 0; n when there is none.
FirstRank(seq, v, strict, n) ==
    Let({r \in 1..Len(seq) : IF strict THEN seq[r] > v ELSE seq[r] >= v}, LAMBDA S :
        IF S = {} THEN n ELSE (CHOOSE r \in S : \A q \in S : r <= q) - 1)

\* C30: index(v, mode) returns, for mode 'left', the smallest r with
\* list[r] >= v, for mode 'right' the smallest r with list[r] > v, len() when
\* there is none; for mode 'exact' an r with list[r] == v, or it raises
\* ValueError when v is absent; no mode changes the list.
C30_IndexFindsRank ==
    [][result'.op = "index" =>
           /\ obj'.data = obj.data /\ obj'.mins = obj.mins /\ obj'.len = obj.len
           /\ result'.args[2] = "left" =>
                  /\ result'.err = OK
                  /\ result'.ret[1] = FirstRank(Listed(obj), result'.args[1], FALSE, obj.len)
           /\ result'.args[2] = "right" =>
                  /\ result'.err = OK
                  /\ result'.ret[1] = FirstRank(Listed(obj), result'.args[1], TRUE, obj.len)
           /\ result'.args[2] = "exact" =>
                  IF Count(Listed(obj), result'.args[1]) = 0
                  THEN result'.err = "ValueError"
                  ELSE /\ result'.err = OK
                       /\ result'.ret[1] + 1 \in 1..Len(Listed(obj))
                       /\ Listed(obj)[result'.ret[1] + 1] = result'.args[1]]_vars

\* C31: after any sequence of append and discard no segment holds more than
\* 2 * CHUNKSIZE elements, and whenever there are at least two segments no
\* segment holds fewer than CHUNKSIZE / 2 elements.
C31_SegmentsWithinBounds ==
    \A i \in 1..Len(obj.data) :
        /\ Len(obj.data[i]) <= 2 * SortedCHUNKSIZE
        /\ Len(obj.data) >= 2 => 2 * Len(obj.data[i]) >= SortedCHUNKSIZE

(***************************************************************************)
(* A SortedList read and deleted by rank, in range and one out of range on *)
(* either side, between appends and discards.                              *)
(***************************************************************************)
\* The ranks of the calls on a list of n elements: -n - 1 .. n.
SortedRanks(n) == (0 - n - 1)..n

SortedGetAt ==
    \E r \in SortedRanks(obj.len) :
        Let(SortedList__getitem__(TheList, r), LAMBDA g :
            SortedCall(g[1], "get", <<r>>, IF g[1].err = OK THEN <<g[2]>> ELSE <<>>))

SortedDeleteAt ==
    \E r \in SortedRanks(obj.len) :
        SortedCall(SortedList__delitem__(TheList, r), "delete", <<r>>, <<>>)

NextRank == SortedAppend \/ SortedDiscard \/ SortedGetAt \/ SortedDeleteAt

SpecRank == InitSorted /\ [][NextRank]_vars

\* The element of rank r, counted from 0, among the elements of seq in order.
Smallest(seq, r) ==
    CHOOSE v \in Elements :
        /\ Cardinality({k \in 1..Len(seq) : seq[k] < v}) <= r
        /\ r < Cardinality({k \in 1..Len(seq) : seq[k] <= v})

\* The list was left as it was.
SortedUntouched == obj'.data = obj.data /\ obj'.mins = obj.mins /\ obj'.len = obj.len

\* C32: for every r with 0 <= r < N, list[r] is the r-th smallest element and
\* del list[r] removes exactly that element, len() decreasing by one and the
\* other elements keeping their order; a negative r counts from the end, and
\* an r outside -N .. N - 1 raises IndexError and changes nothing.
C32_RankReadsAndDeletes ==
    [][result'.op \in {"get", "delete"} =>
           IF RangeIndex(obj.len, result'.args[1]) = -1
           THEN result'.err = "IndexError" /\ SortedUntouched
           ELSE /\ result'.err = OK
                /\ result'.op = "get" =>
                       result'.ret[1] =
                           Smallest(Listed(obj), RangeIndex(obj.len, result'.args[1]))
                /\ result'.op = "delete" =>
                       /\ obj'.len = obj.len - 1
                       /\ RangeIndex(obj.len, result'.args[1]) < Len(Listed(obj))
                       /\ Listed(obj)[RangeIndex(obj.len, result'.args[1]) + 1] =
                              Smallest(Listed(obj), RangeIndex(obj.len, result'.args[1]))
                       /\ Listed(obj') =
                              ListRemove(Listed(obj), RangeIndex(obj.len, result'.args[1]))]_vars

\* C35: whenever _fenwick is not None at the return of append, add, discard
\* or deletion by index, it has one entry per segment plus the leading entry
\* and its prefix sums are the cumulative segment lengths: it is the tree
\* that _fenwick_index builds from the segments.
C35_FenwickCountsSegments ==
    (result.err = OK /\ obj.fenwick.present) =>
        /\ Len(obj.fenwick.f) = Len(obj.data) + 1
        /\ obj.fenwick.f = SortedFenwickBuilt([obj EXCEPT !.fenwick = None])

\* C36: add(x) does what "if x not in self: self.append(x)" says: when an
\* element equal to x is present the list is unchanged, otherwise x is
\* inserted at its sorted position and len() grows by one; it never raises.
C36_AddInsertsIfAbsent ==
    [][result'.op = "add" =>
           /\ result'.err = OK
           /\ IF Count(Listed(obj), result'.args[1]) > 0
              THEN Listed(obj') = Listed(obj) /\ obj'.len = obj.len
              ELSE /\ Gained(obj, obj', result'.args[1], 1)
                   /\ NonDecreasing(Listed(obj'))
                   /\ obj'.len = obj.len + 1]_vars

(***************************************************************************)
(* The order of eviction: accesses of the five segments of a list that was *)
(* stored, committed and opened again, so that the cache starts empty.     *)
(* given is the file names in the order of their latest access, the        *)
(* oldest first.                                                           *)
(***************************************************************************)
MaxLruOps == 6
\* The list opened again on the files of the stored list.
Reopened == __init__(Files(commit(Stored)), Roots)

\* The file name fn was accessed: it becomes the latest of the names.
Accessed(names, fn) == SelectSeq(names, LAMBDA f : f # fn) \o <<fn>>

\* The file names the cache holds, in the order the cache keeps them.
Resident(cache) == [k \in 1..Len(cache) |-> cache[k].fn]

InitLru ==
    /\ result = [err |-> OK, op |-> "init", args |-> <<>>, ret |-> <<>>]
    /\ steps = 0
    /\ Holds(Reopened)
    /\ given = <<>>
    /\ obj = NoObject

\* self._cache_chunk(i)
LruRead ==
    \E i \in 0..(Len(_filenames) - 1) :
        /\ steps < MaxLruOps
        /\ Let(_cache_chunk(Self, i), LAMBDA t :
               Do(t, "_cache_chunk", <<i>>, Chunk(t, FileAt(Self, i))))
        /\ given' = Accessed(given, FileAt(Self, i))
        /\ UNCHANGED obj

\* self._cache_chunk(i).append(v) on the first or the last segment
LruWrite ==
    \E i \in {0, -1} :
        /\ steps < MaxLruOps
        /\ Let(Touch(Self, i, LAMBDA seg : Append(seg, Value)), LAMBDA t :
               Do(t, "touch", <<i>>, <<>>))
        /\ given' = Accessed(given, FileAt(Self, i))
        /\ UNCHANGED obj

NextLru == LruRead \/ LruWrite

SpecLru == InitLru /\ [][NextLru]_vars

\* The resident file name whose latest access is the oldest.
Oldest(cache, names) ==
    names[CHOOSE k \in 1..Len(names) :
              /\ \E c \in 1..Len(cache) : cache[c].fn = names[k]
              /\ \A j \in 1..(k - 1) : \A c \in 1..Len(cache) : cache[c].fn # names[j]]

HeldOf(t, fn) ==
    IF InCache(t, fn) THEN Chunk(t, fn)
    ELSE IF fn \in DOMAIN t.seg THEN t.seg[fn] ELSE <<>>

\* The concatenation of the first k segments of t in _filenames order.
RECURSIVE ConcatOf(_, _)
ConcatOf(t, k) == IF k = 0 THEN <<>> ELSE ConcatOf(t, k - 1) \o HeldOf(t, t.filenames[k])

ContentsOf(t) == ConcatOf(t, Len(t.filenames))

\* What a method did to segment index before it calls _balance(index).
Edits == {"none", "insert", "delete"}

\* The state in which insert (e = "insert") and __delitem__ (e = "delete")
\* call _balance(index): the segment was changed in place and
\* _fenwick_update has recorded its new length.
BeforeBalance(s, index, e) ==
    IF e = "insert"
    THEN Then(Touch(s, index, LAMBDA c : <<Value>> \o c), LAMBDA u :
             _fenwick_update([u EXCEPT !.len = u.len + 1], index, 1))
    ELSE IF e = "delete"
    THEN Then(DelAt(s, index, 0), LAMBDA u : _fenwick_update(u, index, -1))
    ELSE s

\* C37: for every call of _balance(index), in every reachable state and in
\* the states in which insert and __delitem__ call it, the concatenation of
\* the contents of all segments in _filenames order is the same before and
\* after the call.
C37_BalanceKeepsContents ==
    \A i \in (0 - Len(_filenames))..(Len(_filenames) - 1) : \A e \in Edits :
        Let(BeforeBalance(Self, i, e), LAMBDA u :
            u.err = OK => ContentsOf(_balance(u, i)) = ContentsOf(u))

(***************************************************************************)
(* MemList (more_collections/_memlist.py): a list kept in segment files of *)
(* a folder, with one segment cached, obtained from MemList.open.          *)
(* A record holds _cache, _is_closed, _fenwick, _file, _filenames, _len    *)
(* and _lens, and in folder the files of _folder: the counter file (absent *)
(* when has_counter is FALSE), the file names and lengths written at exit, *)
(* and the segment files by name.  The file "<uid>.txt" is named uid.      *)
(***************************************************************************)
\* CHUNKSIZE of _memlist.py, scaled down from 1 << 14.
MemCHUNKSIZE == 2

\* self._file = None
MemNoFile == [present |-> FALSE, f |-> -1]

\* A folder that does not hold a list yet.
MemEmptyFolder ==
    [has_counter |-> FALSE, counter |-> 0, filenames |-> <<>>, lens |-> <<>>,
     seg |-> <<>>]

\* MemList()
MemList__init__ ==
    [class |-> "MemList", cache |-> None, is_closed |-> FALSE, fenwick |-> None,
     file |-> MemNoFile, filenames |-> <<>>, folder |-> MemEmptyFolder, len |-> 0,
     lens |-> <<>>, err |-> OK]

\* MemListProxy(folder): the list made for the with-block.
MemListProxy__init__(folder) ==
    IF ~folder.has_counter
    THEN [MemList__init__ EXCEPT
              !.folder = [folder EXCEPT !.has_counter = TRUE, !.counter = 0,
                                        !.filenames = <<>>, !.lens = <<>>]]
    ELSE [MemList__init__ EXCEPT !.folder = folder, !.filenames = folder.filenames,
                                 !.lens = folder.lens, !.len = Sum(folder.lens)]

\* if self._is_closed: raise RuntimeError(...)
MemGuard(s) == IF s.is_closed THEN Raise(s, "RuntimeError") ELSE s

\* The state after self._get_filename(); the name it returns is the
\* counter it read.
MemList_get_filename(s) ==
    IF ~s.folder.has_counter THEN Raise(s, "FileNotFoundError")
    ELSE [s EXCEPT !.folder.counter = s.folder.counter + 1]

MemList_commit_chunk(s) ==
    IF s.file.present
    THEN [s EXCEPT !.folder.seg = Write(s.folder.seg, s.file.f, s.cache.f)]
    ELSE s

\* self._filenames[index]
MemFileAt(s, index) == s.filenames[RangeIndex(Len(s.filenames), index) + 1]

\* The state after self._cache_chunk(index); the list it returns is
\* s.cache.f of that state.
MemList_cache_chunk(s, index) ==
    IF RangeIndex(Len(s.filenames), index) < 0 THEN Raise(s, "IndexError")
    ELSE IF s.file = Some(MemFileAt(s, index)) THEN s
    ELSE Then(MemList_commit_chunk(s), LAMBDA t :
             IF MemFileAt(s, index) \notin DOMAIN t.folder.seg
             THEN Raise(t, "FileNotFoundError")
             ELSE [t EXCEPT !.cache = Some(t.folder.seg[MemFileAt(s, index)]),
                            !.file = Some(MemFileAt(s, index))])

\* The loop of _fenwick_update from position index of the list f.
RECURSIVE MemFenwickAdd(_, _, _, _)
MemFenwickAdd(f, index, value, doubling) ==
    IF index >= Len(f) THEN f
    ELSE MemFenwickAdd([f EXCEPT ![index + 1] = f[index + 1] + value],
                       IF doubling THEN index * 2 ELSE index + LowBit(index),
                       value, doubling)

MemList_fenwick_update(s, index, value) ==
    IF RangeIndex(s.len, index) < 0 THEN Raise(s, "IndexError")
    ELSE Let(RangeIndex(s.len, index) + 1, LAMBDA i :
         Then([s EXCEPT !.len = s.len + value], LAMBDA t :
         IF i > Len(t.lens) THEN Raise(t, "IndexError")
         ELSE Then([t EXCEPT !.lens[i] = t.lens[i] + value], LAMBDA u :
              IF ~u.fenwick.present THEN u
              ELSE [u EXCEPT !.fenwick =
                        Some(MemFenwickAdd(u.fenwick.f, i, value, i = LowBit(i)))])))

\* The halves a segment of length l is split into when value goes to
\* position index: <<the list kept, the list moved out>>.
MemHalves(chunk, l, index, value) ==
    IF index <= l \div 2
    THEN <<ListInsert(Slice(chunk, 0, l \div 2), index, value), SliceFrom(chunk, l \div 2)>>
    ELSE <<Slice(chunk, 0, l \div 2),
           ListInsert(SliceFrom(chunk, l \div 2), index - l \div 2, value)>>

\* insert: the first segment is longer than 2 * CHUNKSIZE and is split.
MemInsertFirstSplit(s, index, value) ==
    Then(MemList_get_filename([s EXCEPT !.fenwick = None]), LAMBDA t :
    Then(MemList_cache_chunk(
             [t EXCEPT !.filenames = ListInsert(t.filenames, 1, s.folder.counter)], 0),
         LAMBDA u :
    Let(MemHalves(u.cache.f, u.lens[1], index, value), LAMBDA h :
    Then(MemList_commit_chunk(
             [u EXCEPT !.cache = Some(h[1]),
                       !.lens = ListInsert([u.lens EXCEPT ![1] = Len(h[1])], 1, Len(h[2]))]),
         LAMBDA v :
    [v EXCEPT !.cache = Some(h[2]), !.file = Some(v.filenames[2]), !.len = v.len + 1]))))

\* The patch of the Fenwick list when a segment of length n is appended.
RECURSIVE MemFenwickPatch(_, _, _)
MemFenwickPatch(f, i, j) ==
    IF j > 1
    THEN MemFenwickPatch([f EXCEPT ![i + 1] = f[i + 1] + f[i - j \div 2 + 1]], i, j \div 2)
    ELSE f

MemFenwickAppend(f, n) ==
    Let(Append(f, n), LAMBDA g :
        MemFenwickPatch([g EXCEPT ![Len(g) - 1] = g[Len(g) - 1] - n], Len(f), LowBit(Len(f))))

\* insert: the last segment is longer than 2 * CHUNKSIZE and is split.
MemInsertLastSplit(s, index, value) ==
    Then(MemList_cache_chunk(s, -1), LAMBDA t :
    Let(MemHalves(t.cache.f, t.lens[Len(t.lens)], index, value), LAMBDA h :
    Then(MemList_commit_chunk(
             [t EXCEPT !.cache = Some(h[1]), !.len = t.len + 1,
                       !.lens[Len(t.lens)] = Len(h[1])]),
         LAMBDA u :
    Then(MemList_get_filename([u EXCEPT !.cache = Some(h[2])]), LAMBDA v :
    [v EXCEPT !.file = Some(u.folder.counter),
              !.filenames = Append(v.filenames, u.folder.counter),
              !.lens = Append(v.lens, Len(h[2])),
              !.fenwick = IF v.fenwick.present
                          THEN Some(MemFenwickAppend(v.fenwick.f, Len(h[2])))
                          ELSE None]))))

\* self._cache_chunk(at).insert(index, value); self._fenwick_update(at, 1)
MemInsertInto(s, at, index, value) ==
    Then(MemList_cache_chunk(s, at), LAMBDA t :
        MemList_fenwick_update([t EXCEPT !.cache = Some(ListInsert(t.cache.f, index, value))],
                               at, 1))

\* insert(index, value) for an index that falls into the first or the last
\* segment (0 and len(self) do).
MemList_insert(s, index0, value) ==
    Then(MemGuard(s), LAMBDA t :
    IF t.len = 0
    THEN Then(MemList_get_filename([t EXCEPT !.cache = Some(<<value>>), !.fenwick = None]),
              LAMBDA u :
              [u EXCEPT !.file = Some(t.folder.counter),
                        !.filenames = Append(u.filenames, t.folder.counter),
                        !.len = 1, !.lens = Append(u.lens, 1)])
    ELSE Let(IF index0 < 0 THEN index0 + t.len ELSE index0, LAMBDA index :
         IF t.lens = <<>> THEN Raise(t, "IndexError")
         ELSE IF index <= t.lens[1]
         THEN IF t.lens[1] > 2 * MemCHUNKSIZE
              THEN MemInsertFirstSplit(t, index, value)
              ELSE MemInsertInto(t, 0, index, value)
         ELSE Let(index + t.lens[Len(t.lens)] - t.len, LAMBDA j :
              IF t.lens[Len(t.lens)] > 2 * MemCHUNKSIZE
              THEN MemInsertLastSplit(t, j, value)
              ELSE MemInsertInto(t, -1, j, value))))
\* MutableSequence.append: self.insert(len(self), value)
MemList_append(s, value) ==
    Then(MemGuard(s), LAMBDA t : MemList_insert(t, t.len, value))

\* MutableSequence.extend: self.append(v) for every v of values
RECURSIVE MemList_extend(_, _)
MemList_extend(s, values) ==
    IF values = <<>> \/ s.err # OK THEN s
    ELSE MemList_extend(MemList_append(s, Head(values)), Tail(values))

\* The files of the names k.. of _filenames are unlinked.
RECURSIVE MemUnlinkAll(_, _)
MemUnlinkAll(s, k) ==
    IF k > Len(s.filenames) THEN s
    ELSE IF s.filenames[k] \notin DOMAIN s.folder.seg THEN Raise(s, "FileNotFoundError")
    ELSE MemUnlinkAll([s EXCEPT !.folder.seg = Unlink(s.folder.seg, s.filenames[k])], k + 1)

MemList_clear(s) ==
    Then(MemGuard(s), LAMBDA t :
    Then(MemUnlinkAll(t, 1), LAMBDA u :
    IF ~u.folder.has_counter THEN Raise(u, "FileNotFoundError")
    ELSE [u EXCEPT !.folder.has_counter = FALSE, !.folder.counter = 0,
                   !.folder.filenames = <<>>, !.folder.lens = <<>>,
                   !.cache = None, !.fenwick = None, !.file = MemNoFile,
                   !.filenames = <<>>, !.len = 0, !.lens = <<>>]))

\* self._cache_chunk(i).reverse() for i, i + 1, ... below len(self._lens)
RECURSIVE MemReverseChunks(_, _)
MemReverseChunks(s, i) ==
    IF i >= Len(s.lens) \/ s.err # OK THEN s
    ELSE MemReverseChunks(
             Then(MemList_cache_chunk(s, i), LAMBDA t :
                 [t EXCEPT !.cache = Some(Reverse(t.cache.f))]),
             i + 1)

MemList_reverse(s) ==
    IF Len(s.lens) > 1
    THEN Then(MemReverseChunks(s, 0), LAMBDA t :
             [t EXCEPT !.fenwick = None, !.filenames = Reverse(t.filenames),
                       !.lens = Reverse(t.lens)])
    ELSE IF ~s.cache.present THEN MemReverseChunks(s, 0)
    ELSE [s EXCEPT !.cache = Some(Reverse(s.cache.f))]

\* MemListProxy.__exit__
MemListProxy__exit__(s) ==
    Then(MemList_commit_chunk(s), LAMBDA t :
        [t EXCEPT !.folder.filenames = t.filenames, !.folder.lens = t.lens,
                  !.is_closed = TRUE])

(***************************************************************************)
(* MemList: the calls made on a list inside and after its with-block.      *)
(***************************************************************************)
\* Most calls of a behaviour of SpecMem.
MaxMemOps == 6
\* The indices and the values the calls pass.
MemIndices == {0, 1}
MemValue == 100 + steps

\* The list at hand, with no exception propagating.
TheMemList == [obj EXCEPT !.err = OK]

\* A call named op with arguments args took the list to t and returned ret.
MemCall(t, op, args, ret) ==
    /\ steps < MaxMemOps
    /\ obj.class = "MemList"
    /\ obj' = [t EXCEPT !.err = OK]
    /\ result' = [err |-> t.err, op |-> op, args |-> args,
                  ret |-> IF t.err = OK THEN ret ELSE <<>>]
    /\ steps' = steps + 1
    /\ UNCHANGED <<_cache, _fenwick, _filenames, _len, _lens, _path_count, _path_index,
                   _paths, disk, hw, given>>

\* with MemList.open(folder) as lst: on a folder that holds no list
InitMem ==
    /\ result = [err |-> OK, op |-> "init", args |-> <<>>, ret |-> <<>>]
    /\ steps = 0
    /\ given = <<>>
    /\ Holds(Built(0))
    /\ obj = MemListProxy__init__(MemEmptyFolder)

MemAppend == MemCall(MemList_append(TheMemList, MemValue), "append", <<MemValue>>, <<>>)

MemInsert == MemCall(MemList_insert(TheMemList, 0, MemValue), "insert", <<0, MemValue>>, <<>>)

MemExtend ==
    \E values \in {<<>>, <<MemValue, MemValue + 50>>} :
        MemCall(MemList_extend(TheMemList, values), "extend", <<values>>, <<>>)

MemLen == MemCall(MemGuard(TheMemList), "len", <<>>, <<obj.len>>)

\* iter(lst): the chain it returns has read nothing yet
MemIter == MemCall(MemGuard(TheMemList), "iter", <<>>, <<>>)

MemClear == MemCall(MemList_clear(TheMemList), "clear", <<>>, <<>>)

MemReverse == MemCall(MemList_reverse(TheMemList), "reverse", <<>>, <<>>)

\* lst[i], lst[i] = v and del lst[i] after the with-block: the methods
\* begin with the test of _is_closed.
MemClosedItem ==
    \E op \in {"get", "set", "delindex"} : \E i \in MemIndices :
        /\ obj.class = "MemList" /\ obj.is_closed
        /\ MemCall(MemGuard(TheMemList), op, <<i>>, <<>>)

\* the with-block is left
MemExit ==
    /\ obj.class = "MemList" /\ ~obj.is_closed
    /\ MemCall(MemListProxy__exit__(TheMemList), "exit", <<>>, <<>>)

\* with MemList.open(folder) as lst: on the folder of the closed list
MemOpen ==
    /\ obj.class = "MemList" /\ obj.is_closed
    /\ MemCall(MemListProxy__init__(obj.folder), "open", <<>>, <<>>)

NextMem ==
    \/ MemAppend \/ MemInsert \/ MemExtend \/ MemLen \/ MemIter \/ MemClear
    \/ MemReverse \/ MemClosedItem \/ MemExit \/ MemOpen

SpecMem == InitMem /\ [][NextMem]_vars

\* The operations of a list the claim names.
MemPublic ==
    {"len", "get", "set", "delindex", "iter", "append", "insert", "extend", "clear",
     "reverse"}

\* C38: once the with-block of MemList.open has exited and _is_closed is
\* set, every public operation (len, indexing, item assignment, deletion,
\* iteration, append, insert, extend, clear, reverse) raises RuntimeError
\* and changes neither the state in memory nor any file.
C38_ClosedListRaises ==
    [][(obj.is_closed /\ result'.op \in MemPublic) =>
           /\ result'.err = "RuntimeError"
           /\ obj' = obj]_vars

(***************************************************************************)
(* FifoQueue (queue/_src/fifo.py): _front holds the front of the queue in  *)
(* reversed order and _back the back in order.  The calls return           *)
(* <<state, value>>, the value <<>> when the call raises or returns None.   *)
(***************************************************************************)
\* FifoQueue(iterable) for a list, and FifoQueue() for the empty one
FifoQueue__init__(iterable) ==
    [class |-> "FifoQueue", back |-> <<>>, front |-> Reverse(iterable), err |-> OK]

FifoQueue__len__(s) == Len(s.front) + Len(s.back)

FifoQueue_append(s, element) == [s EXCEPT !.back = Append(s.back, element)]

FifoQueue_reverse(s) == [s EXCEPT !.back = s.front, !.front = s.back]

FifoQueue_peek(s) ==
    IF Len(s.front) > 0 THEN <<s, <<s.front[Len(s.front)]>>>>
    ELSE IF Len(s.back) > 0 THEN <<s, <<s.back[1]>>>>
    ELSE <<Raise(s, "IndexError"), <<>>>>

\* pop() taking the oldest element of _back when _front is empty
FifoQueue_pop_unreversed(s) ==
    IF RangeIndex(FifoQueue__len__(s), 0) < 0 THEN <<Raise(s, "IndexError"), <<>>>>
    ELSE Let(IF Len(s.front) = 0 THEN FifoQueue_reverse(s) ELSE s, LAMBDA t :
             <<[t EXCEPT !.front = DelLast(t.front)], <<t.front[Len(t.front)]>>>>)

\* pop(), the index left at its default 0
FifoQueue_pop(s) ==
    IF RangeIndex(FifoQueue__len__(s), 0) < 0 THEN <<Raise(s, "IndexError"), <<>>>>
    ELSE Let(IF Len(s.front) = 0
             THEN Let(FifoQueue_reverse(s), LAMBDA u : [u EXCEPT !.front = Reverse(u.front)])
             ELSE s,
             LAMBDA t :
             <<[t EXCEPT !.front = DelLast(t.front)], <<t.front[Len(t.front)]>>>>)

(***************************************************************************)
(* FifoQueue: interleavings of append, pop and peek.  given is the         *)
(* elements appended and not yet popped, the oldest first.                 *)
(***************************************************************************)
MaxFifoOps == 7
FifoElements == 1..3
\* The lists the queue is constructed from.
FifoIterables == {<<>>, <<1, 2>>, <<3, 2, 1>>}

\* A call named op took the queue to p[1] and returned p[2].
FifoCall(p, op, args) ==
    /\ steps < MaxFifoOps
    /\ obj.class = "FifoQueue"
    /\ obj' = [p[1] EXCEPT !.err = OK]
    /\ result' = [err |-> p[1].err, op |-> op, args |-> args, ret |-> p[2]]
    /\ steps' = steps + 1
    /\ UNCHANGED <<_cache, _fenwick, _filenames, _len, _lens, _path_count, _path_index,
                   _paths, disk, hw>>

InitFifo ==
    /\ result = [err |-> OK, op |-> "init", args |-> <<>>, ret |-> <<>>]
    /\ steps = 0
    /\ Holds(Built(0))
    /\ \E iterable \in FifoIterables :
           obj = FifoQueue__init__(iterable) /\ given = iterable

FifoAppend ==
    \E x \in FifoElements :
        /\ FifoCall(<<FifoQueue_append(obj, x), <<>>>>, "append", <<x>>)
        /\ given' = Append(given, x)

FifoPop ==
    /\ FifoCall(FifoQueue_pop(obj), "pop", <<>>)
    /\ given' = IF given = <<>> THEN given ELSE Tail(given)

FifoPeek ==
    /\ FifoCall(FifoQueue_peek(obj), "peek", <<>>)
    /\ UNCHANGED given

NextFifo == FifoAppend \/ FifoPop \/ FifoPeek

SpecFifo == InitFifo /\ [][NextFifo]_vars

\* The queue holds nothing.
FifoEmpty(s) == s.front = <<>> /\ s.back = <<>>

\* C39: for any interleaving of append(x) and pop(), pop() removes and
\* returns the elements in the order in which they were appended, and peek()
\* returns the element the next pop() will return; pop() and peek() on an
\* empty queue raise IndexError and leave the queue empty.
C39_PopsInOrderOfAppends ==
    [][/\ result'.op = "append" =>
              result'.err = OK /\ FifoQueue__len__(obj') = Len(given) + 1
       /\ result'.op \in {"pop", "peek"} =>
              IF given = <<>>
              THEN result'.err = "IndexError" /\ FifoEmpty(obj) /\ FifoEmpty(obj')
              ELSE /\ result'.err = OK
                   /\ result'.ret = <<Head(given)>>
                   /\ FifoQueue__len__(obj')
                          = IF result'.op = "pop" THEN Len(given) - 1 ELSE Len(given)
                   /\ result'.op = "peek" =>
                          obj' = obj /\ FifoQueue_pop(obj')[2] = result'.ret]_vars

\* A pop on an empty _front moved 2 and 3 from _back to _front and
\* returned 2, the older one; an element appended since waits in _back.
C39_Witness ==
    /\ obj.class = "FifoQueue"
    /\ result.op = "pop" /\ result.err = OK /\ result.ret = <<2>>
    /\ obj.front = <<3>> /\ obj.back # <<>>
    /\ given = <<3>> \o obj.back

(***************************************************************************)
(* MaxPriorityQueue (queue/_src/max_queue.py): _heap is a max-heap kept in *)
(* a list; position p of the list, counted from 0, is heap[p + 1] here.    *)
(***************************************************************************)
\* The loop of siftdown: newitem moves up from pos while its parent is less.
RECURSIVE SiftdownLoop(_, _, _, _)
SiftdownLoop(heap, startpos, pos, newitem) ==
    IF pos > startpos /\ heap[(pos - 1) \div 2 + 1] < newitem
    THEN SiftdownLoop([heap EXCEPT ![pos + 1] = heap[(pos - 1) \div 2 + 1]],
                      startpos, (pos - 1) \div 2, newitem)
    ELSE [heap EXCEPT ![pos + 1] = newitem]

siftdown(heap, startpos, pos) == SiftdownLoop(heap, startpos, pos, heap[pos + 1])

\* The loop of siftup: the larger child moves up until a leaf is reached;
\* <<heap, pos>> when it ends.
RECURSIVE SiftupLoop(_, _)
SiftupLoop(heap, pos) ==
    IF 2 * pos + 1 < Len(heap)
    THEN Let(IF 2 * pos + 2 < Len(heap) /\ ~(heap[2 * pos + 3] < heap[2 * pos + 2])
             THEN 2 * pos + 2 ELSE 2 * pos + 1,
             LAMBDA childpos :
                 SiftupLoop([heap EXCEPT ![pos + 1] = heap[childpos + 1]], childpos))
    ELSE <<heap, pos>>

siftup(heap, pos) ==
    Let(SiftupLoop(heap, pos), LAMBDA r :
        siftdown([r[1] EXCEPT ![r[2] + 1] = heap[pos + 1]], pos, r[2]))

\* siftup(heap, i) for i, i - 1, ..., 0
RECURSIVE HeapifyFrom(_, _)
HeapifyFrom(heap, i) == IF i < 0 THEN heap ELSE HeapifyFrom(siftup(heap, i), i - 1)

heapify(heap) == HeapifyFrom(heap, Len(heap) \div 2 - 1)

\* <<heap, the item returned>>
heapreplace(heap, item) == <<siftup([heap EXCEPT ![1] = item], 0), heap[1]>>

heappop(heap) ==
    IF Len(heap) > 1 THEN heapreplace(DelLast(heap), heap[Len(heap)])
    ELSE <<DelLast(heap), heap[Len(heap)]>>

heappush(heap, item) == siftdown(Append(heap, item), 0, Len(heap))

heappushpop(heap, item) ==
    IF Len(heap) > 0 /\ heap[1] < item
    THEN <<siftup([heap EXCEPT ![1] = item], 0), heap[1]>>
    ELSE <<heap, item>>

\* The methods return <<state, value>>, the value <<>> when the call raises
\* or returns None.
MaxPriorityQueue__init__(iterable) ==
    [class |-> "MaxPriorityQueue", heap |-> heapify(iterable), err |-> OK]

MaxPriorityQueue_append(s, element) == [s EXCEPT !.heap = heappush(s.heap, element)]

MaxPriorityQueue_pop(s) ==
    IF Len(s.heap) = 0 THEN <<Raise(s, "IndexError"), <<>>>>
    ELSE <<[s EXCEPT !.heap = heappop(s.heap)[1]], <<heappop(s.heap)[2]>>>>

MaxPriorityQueue_pushpop(s, element) ==
    <<[s EXCEPT !.heap = heappushpop(s.heap, element)[1]],
      <<heappushpop(s.heap, element)[2]>>>>

\* The definition of the base class: self.append(element); return self.pop()
AbstractQueue_pushpop(s, element) ==
    MaxPriorityQueue_pop(MaxPriorityQueue_append(s, element))

(***************************************************************************)
(* MaxPriorityQueue: calls of append, pop and pushpop.                     *)
(***************************************************************************)
MaxHeapOps == 4
HeapElements == 1..4
\* The lists the queue is constructed from.
HeapIterables == {<<>>, <<3>>, <<1, 2, 3>>, <<2, 4, 1, 3, 2>>}

HeapCall(p, op, args) ==
    /\ steps < MaxHeapOps
    /\ obj.class = "MaxPriorityQueue"
    /\ obj' = [p[1] EXCEPT !.err = OK]
    /\ result' = [err |-> p[1].err, op |-> op, args |-> args, ret |-> p[2]]
    /\ steps' = steps + 1
    /\ UNCHANGED <<_cache, _fenwick, _filenames, _len, _lens, _path_count, _path_index,
                   _paths, disk, hw, given>>

InitHeap ==
    /\ result = [err |-> OK, op |-> "init", args |-> <<>>, ret |-> <<>>]
    /\ steps = 0
    /\ given = <<>>
    /\ Holds(Built(0))
    /\ \E iterable \in HeapIterables : obj = MaxPriorityQueue__init__(iterable)

HeapAppend ==
    \E x \in HeapElements :
        HeapCall(<<MaxPriorityQueue_append(obj, x), <<>>>>, "append", <<x>>)

HeapPop == HeapCall(MaxPriorityQueue_pop(obj), "pop", <<>>)

HeapPushpop ==
    \E x \in HeapElements : HeapCall(MaxPriorityQueue_pushpop(obj, x), "pushpop", <<x>>)

NextHeap == HeapAppend \/ HeapPop \/ HeapPushpop

SpecHeap == InitHeap /\ [][NextHeap]_vars

\* Every element of the heap is at most its parent.
IsMaxHeap(heap) == \A p \in 1..(Len(heap) - 1) : ~(heap[(p - 1) \div 2 + 1] < heap[p + 1])

\* C40: pushpop(x) is equivalent to append(x) followed by pop(): it returns
\* a largest element among x and the elements that were in the queue, and
\* leaves the queue holding the remaining elements with the max-heap
\* property intact.
C40_PushpopIsAppendThenPop ==
    [][result'.op = "pushpop" =>
           Let(AbstractQueue_pushpop(obj, result'.args[1]), LAMBDA base :
               /\ result'.err = base[1].err
               /\ result'.ret = base[2]
               /\ \A e \in HeapElements : ~(result'.ret[1] < e) \/ Count(obj.heap, e) = 0
               /\ ~(result'.ret[1] < result'.args[1])
               /\ \A e \in HeapElements : Count(obj'.heap, e) = Count(base[1].heap, e)
               /\ IsMaxHeap(obj'.heap))]_vars

====
